---- MODULE Spec2Model ----
(***************************************************************************)
(* A model of pycoalaip: COALA IP entities (coalaip/entities.py), their    *)
(* validators (coalaip/model_validators.py), the linked-data extractor     *)
(* (coalaip/data_formats.py) and the high-level functions of               *)
(* coalaip/coalaip.py, run against a ledger plugin (coalaip/plugin.py).    *)
(*                                                                         *)
(* Python values are encoded as strings: a Python str is the TLA+ string   *)
(* itself, the other values the model needs are the tokens below.  A dict  *)
(* is a function whose DOMAIN is the set of its keys.                      *)
(***************************************************************************)
EXTENDS Integers, Sequences, FiniteSets, TLC

\* ---------------------------------------------------------------- bounds
MaxEnt == 1
MaxIds == 4
MaxSaves == 2

\* ------------------------------------------------------- python values
None == "<None>"
PyTrue == "<True>"
PyFalse == "<False>"
PyEmptyDict == "<{}>"
PyInt == "<1>"

NonStr == {None, PyTrue, PyFalse, PyEmptyDict, PyInt}

\* isinstance(v, str)
IsStr(v) == v \notin NonStr

\* bool(v)
Truthy(v) == v \notin {None, PyFalse, PyEmptyDict, ""}

EmptyDict == [k \in {} |-> None]

\* a dict argument left at its default None
NoneDict == [k \in {None} |-> None]

\* d.get(k)
Get(d, k) == IF k \in DOMAIN d THEN d[k] ELSE None

\* d.get(k, default)
GetOr(d, k, default) == IF k \in DOMAIN d THEN d[k] ELSE default

\* d[k] = v
Put(d, k, v) == [x \in (DOMAIN d) \cup {k} |-> IF x = k THEN v ELSE d[x]]

\* del d[k]
Del(d, k) == [x \in (DOMAIN d) \ {k} |-> d[x]]

\* {k1: v1} and {k1: v1, k2: v2}
D1(k1, v1) == Put(EmptyDict, k1, v1)
D2(k1, v1, k2, v2) == Put(D1(k1, v1), k2, v2)

\* ------------------------------------------------------------ the world
Users == {"alice", "bob"}
Plugins == {"p1", "p2"}

\* CoalaIp.plugin: the plugin the high-level functions are bound to
CoalaIpPlugin == "p1"

Kinds == {"Work", "Manifestation", "Right", "Copyright", "RightsAssignment"}

\* isinstance(x, Right): Right and its subclass Copyright
RightKinds == {"Right", "Copyright"}

CtxCoalaip == "<ctx:coalaip>"
DEFAULT_LD_CONTEXT == "<ctx:coalaip,schema>"

IdNames == <<"id1", "id2", "id3", "id4", "id5", "id6", "id7", "id8">>

\* no entity given (an argument left at its default None)
NoEnt == 0

\* ------------------------------------------------------------ validators
\* Each validator is TRUE when the Python function returns without raising
\* ModelDataError.
is_creation_model(value) == IsStr(Get(value, "name"))

\* a work validator that does not look for 'manifestationOfWork'
is_work_model_of_any_creation(value) ==
    /\ is_creation_model(value)
    /\ GetOr(value, "isManifestation", PyFalse) = PyFalse

is_work_model(value) ==
    /\ is_creation_model(value)
    /\ "manifestationOfWork" \notin DOMAIN value
    /\ GetOr(value, "isManifestation", PyFalse) = PyFalse

\* a manifestation validator that takes any 'manifestationOfWork', None too
is_manifestation_model_of_any_work(value) ==
    /\ is_creation_model(value)
    /\ "manifestationOfWork" \in DOMAIN value
    /\ GetOr(value, "isManifestation", PyTrue) = PyTrue

\* a manifestation validator that does not look at 'isManifestation'
is_manifestation_model_unflagged(value) ==
    /\ is_creation_model(value)
    /\ IsStr(Get(value, "manifestationOfWork"))

is_manifestation_model(value) ==
    /\ is_creation_model(value)
    /\ IsStr(Get(value, "manifestationOfWork"))
    /\ GetOr(value, "isManifestation", PyTrue) = PyTrue

is_right_model(value) ==
    LET rights_of == Get(value, "rightsOf")
        allowed_by == Get(value, "allowedBy")
    IN  /\ ~(rights_of # None /\ ~IsStr(rights_of))
        /\ ~(allowed_by # None /\ ~IsStr(allowed_by))
        /\ (Truthy(rights_of) # Truthy(allowed_by))

is_copyright_model(value) ==
    /\ is_right_model(value)
    /\ "allowedBy" \notin DOMAIN value

\* ------------------------------------------------------------- formats
DataFormats == {"json", "jsonld", "ipld"}

\* _data_format_resolver: "ok" when the selector names a DataFormat
ResolveFormat(data_format) ==
    IF data_format \in DataFormats THEN "ok" ELSE "ValueError"

\* _extract_ld_data_from_keys; a key of None is a key that is not looked for
ExtractFromKeys(orig_data, type_key, context_key, id_key) ==
    LET has(k) == k # None /\ k \in DOMAIN orig_data
        meta == {k \in {type_key, context_key, id_key} : has(k)}
    IN  [data |-> [x \in (DOMAIN orig_data) \ meta |-> orig_data[x]],
         ld_type |-> IF has(type_key) THEN orig_data[type_key] ELSE None,
         ld_context |-> IF has(context_key) THEN orig_data[context_key]
                        ELSE None,
         ld_id |-> IF has(id_key) THEN orig_data[id_key] ELSE None]

\* an extraction from JSON-LD that leaves the '@id' key in the data
extract_ld_data_from_jsonld_keeping_id(data) ==
    ExtractFromKeys(data, "@type", "@context", None)

extract_ld_data_from_jsonld(data) ==
    ExtractFromKeys(data, "@type", "@context", "@id")

extract_ld_data_from_json(data) ==
    ExtractFromKeys(data, "type", None, None)

\* ------------------------------------------------------------- models
\* The validator each entity kind's model factory installs.
Validates(kind, data) ==
    CASE kind = "Work" -> is_work_model(data)
      [] kind = "Manifestation" -> is_manifestation_model(data)
      [] kind = "Right" -> is_right_model(data)
      [] kind = "Copyright" -> is_copyright_model(data)
      [] OTHER -> TRUE

DefaultType(kind) ==
    CASE kind = "Work" -> "AbstractWork"
      [] kind = "Manifestation" -> "CreativeWork"
      [] kind = "Right" -> "Right"
      [] kind = "Copyright" -> "Copyright"
      [] OTHER -> "RightsTransferAction"

DefaultContext(kind) ==
    IF kind = "Manifestation" THEN DEFAULT_LD_CONTEXT ELSE CtxCoalaip

\* kinds whose type label is fixed: a supplied type is ignored
FixedTypeKinds == {"Work", "Copyright", "RightsAssignment"}

\* <kind>_model_factory(data=, ld_type=, ld_context=, ld_id=): the Model, or
\* the error its validator raises.  An argument of None is one not given.
ModelFactory(kind, data, ld_type, ld_context, ld_id) ==
    IF ~Validates(kind, data)
    THEN [err |-> "ModelDataError"]
    ELSE [err |-> "none",
          model |-> [lazy |-> FALSE, loaded |-> TRUE, data |-> data,
                     ld_type |-> IF kind \in FixedTypeKinds \/ ld_type = None
                                 THEN DefaultType(kind) ELSE ld_type,
                     ld_context |-> IF ld_context = None
                                    THEN DefaultContext(kind) ELSE ld_context,
                     ld_id |-> IF ld_id = None THEN "" ELSE ld_id]]

\* <kind>_model_factory(model_cls=LazyLoadableModel): no data yet
LazyModelFactory(kind) ==
    [lazy |-> TRUE, loaded |-> FALSE, data |-> EmptyDict,
     ld_type |-> DefaultType(kind), ld_context |-> DefaultContext(kind),
     ld_id |-> None]

\* ------------------------------------------------------------ entities
\* a from_data that hands its model factory the data and nothing else
from_data_untyped(kind, data, data_format, plugin) ==
    LET build(m) ==
            IF m.err # "none" THEN [err |-> m.err]
            ELSE [err |-> "none",
                  entity |-> [kind |-> kind, model |-> m.model,
                              plugin |-> plugin, persist_id |-> None,
                              saves |-> 0, origin |-> "caller"]]
        model_of(x) == build(ModelFactory(kind, x.data, None, None, None))
    IN  IF ResolveFormat(data_format) # "ok" THEN [err |-> "ValueError"]
        ELSE IF data_format = "ipld" THEN [err |-> "NotImplementedError"]
        ELSE IF data_format = "jsonld"
        THEN model_of(extract_ld_data_from_jsonld(data))
        ELSE model_of(extract_ld_data_from_json(data))

\* Entity.from_data: the new, unpersisted entity or the error raised.
from_data(kind, data, data_format, plugin) ==
    LET build(m) ==
            IF m.err # "none" THEN [err |-> m.err]
            ELSE [err |-> "none",
                  entity |-> [kind |-> kind, model |-> m.model,
                              plugin |-> plugin, persist_id |-> None,
                              saves |-> 0, origin |-> "caller"]]
        model_of(x) ==
            build(ModelFactory(kind, x.data, x.ld_type, x.ld_context, x.ld_id))
    IN  IF ResolveFormat(data_format) # "ok" THEN [err |-> "ValueError"]
        ELSE IF data_format = "ipld" THEN [err |-> "NotImplementedError"]
        ELSE IF data_format = "jsonld"
        THEN model_of(extract_ld_data_from_jsonld(data))
        ELSE model_of(extract_ld_data_from_json(data))

\* a to_json() that labels the type '@type'
to_json_ld_keyed(entity) ==
    Put(entity.model.data, "@type", entity.model.ld_type)

\* Entity.to_json
to_json(entity) == Put(entity.model.data, "type", entity.model.ld_type)

\* Entity.to_jsonld
to_jsonld(entity) ==
    Put(Put(Put(entity.model.data, "@context", entity.model.ld_context),
            "@type", entity.model.ld_type),
        "@id", entity.model.ld_id)

\* A mapping handed to a caller: its value, and whether it is the very
\* object the model keeps its data in.  Entity.data hands out dict(data), a
\* mapping of its own.
data_handed_uncopied(model_data) == [val |-> model_data, shared |-> TRUE]

data_copy(model_data) == [val |-> model_data, shared |-> FALSE]

\* what the accessor `which` of an entity with resident data returns:
\* to_json() and to_jsonld() write their keys into the mapping data returned
returned(entity, which) ==
    LET written(h) ==
            [h EXCEPT !.val = CASE which = "data" -> @
                                [] which = "to_json" -> to_json(entity)
                                [] OTHER -> to_jsonld(entity)]
    IN  written(data_copy(entity.model.data))

\* Entity._to_format: the payload or the error raised
to_format(entity, data_format) ==
    IF ResolveFormat(data_format) # "ok" THEN [err |-> "ValueError"]
    ELSE IF data_format = "ipld" THEN [err |-> "NotImplementedError"]
    ELSE [err |-> "none",
          payload |-> IF data_format = "json" THEN to_json(entity)
                      ELSE to_jsonld(entity)]

\* -------------------------------------------------------------- ledger
\* The ledger behind the plugins: what save() stored under each id and the
\* ownership history get_history() reports for it.  `next` numbers the ids
\* the ledger hands out.
SaveOutcomes == {"ok", "none", "raise"}
TransferOutcomes == {"ok", "raise"}

\* an ownership event as get_history reports it
Event(user, event_id) == [user |-> user, event_id |-> event_id]

Call(op, plugin, pid, payload, user, to, ret) ==
    [op |-> op, plugin |-> plugin, pid |-> pid, payload |-> payload,
     user |-> user, to |-> to, ret |-> ret]

Raised == "<raised>"

\* AbstractPlugin.save(entity_data, user=user): returns the new id, returns
\* no id at all, or raises EntityCreationError
plugin_save(L, plugin, payload, user, outcome) ==
    IF outcome = "raise"
    THEN [err |-> "EntityCreationError", ret |-> None, ledger |-> L,
          calls |-> <<Call("save", plugin, None, payload, user, None, Raised)>>]
    ELSE IF outcome = "none"
    THEN [err |-> "none", ret |-> None, ledger |-> L,
          calls |-> <<Call("save", plugin, None, payload, user, None, None)>>]
    ELSE LET id == IdNames[L.next]
         IN  [err |-> "none", ret |-> id,
              ledger |-> [store |-> Put(L.store, id, payload),
                          hist |-> Put(L.hist, id, <<Event(user, id)>>),
                          next |-> L.next + 1],
              calls |-> <<Call("save", plugin, None, payload, user, None, id)>>]

\* AbstractPlugin.load(persist_id)
plugin_load(L, plugin, persist_id) ==
    IF persist_id \in DOMAIN L.store
    THEN [err |-> "none", ret |-> L.store[persist_id],
          calls |-> <<Call("load", plugin, persist_id, None, None, None,
                           L.store[persist_id])>>]
    ELSE [err |-> "EntityNotFoundError", ret |-> None,
          calls |-> <<Call("load", plugin, persist_id, None, None, None,
                           Raised)>>]

\* AbstractPlugin.get_history(persist_id)
plugin_get_history(L, plugin, persist_id) ==
    IF persist_id \in DOMAIN L.hist
    THEN [err |-> "none", ret |-> L.hist[persist_id],
          calls |-> <<Call("get_history", plugin, persist_id, None, None,
                           None, L.hist[persist_id])>>]
    ELSE [err |-> "EntityNotFoundError", ret |-> <<>>,
          calls |-> <<Call("get_history", plugin, persist_id, None, None,
                           None, Raised)>>]

\* AbstractPlugin.get_status(persist_id)
plugin_get_status(L, plugin, persist_id) ==
    IF persist_id \in DOMAIN L.store
    THEN [err |-> "none", ret |-> "valid",
          calls |-> <<Call("get_status", plugin, persist_id, None, None,
                           None, "valid")>>]
    ELSE [err |-> "EntityNotFoundError", ret |-> None,
          calls |-> <<Call("get_status", plugin, persist_id, None, None,
                           None, Raised)>>]

\* an is_same_user whose answer reaches the caller as True whatever it was
plugin_is_same_user_unheeded(plugin, user_a, user_b) ==
    [ret |-> TRUE,
     calls |-> <<Call("is_same_user", plugin, None, None, user_a, user_b,
                      IF user_a = user_b THEN PyTrue ELSE PyFalse)>>]

\* AbstractPlugin.is_same_user(user_a, user_b)
plugin_is_same_user(plugin, user_a, user_b) ==
    [ret |-> (user_a = user_b),
     calls |-> <<Call("is_same_user", plugin, None, None, user_a, user_b,
                      IF user_a = user_b THEN PyTrue ELSE PyFalse)>>]

\* AbstractPlugin.transfer(persist_id, payload, from_user=, to_user=)
plugin_transfer(L, plugin, persist_id, payload, from_user, to_user, outcome) ==
    IF persist_id \notin DOMAIN L.hist
    THEN [err |-> "EntityNotFoundError", ret |-> None, ledger |-> L,
          calls |-> <<Call("transfer", plugin, persist_id, payload,
                           from_user, to_user, Raised)>>]
    ELSE IF outcome = "raise"
    THEN [err |-> "EntityTransferError", ret |-> None, ledger |-> L,
          calls |-> <<Call("transfer", plugin, persist_id, payload,
                           from_user, to_user, Raised)>>]
    ELSE LET id == IdNames[L.next]
         IN  [err |-> "none", ret |-> id,
              ledger |-> [L EXCEPT !.hist[persist_id] =
                                       Append(@, Event(to_user, id)),
                                   !.next = @ + 1],
              calls |-> <<Call("transfer", plugin, persist_id, payload,
                               from_user, to_user, id)>>]

\* ------------------------------------------------ entity operations
\* a __setattr__ that never freezes the attribute
set_persist_id_unfrozen(entity, value) ==
    [err |-> "none", entity |-> [entity EXCEPT !.persist_id = value]]

\* PostInitImmutable.__setattr__(self, 'persist_id', value): allowed while
\* the attribute is None, FrozenInstanceError afterwards
set_persist_id(entity, value) ==
    IF entity.persist_id = None
    THEN [err |-> "none", entity |-> [entity EXCEPT !.persist_id = value]]
    ELSE [err |-> "FrozenInstanceError", entity |-> entity]

\* a __setattr__ that lets every attribute be assigned again
setattr_unfrozen(entity, name, value) ==
    [err |-> "none", entity |-> [entity EXCEPT ![name] = value]]

\* PostInitImmutable.__setattr__(self, name, value) on an Entity.  model and
\* plugin are given at initialisation and never None (attr's instance_of
\* validators); persist_id starts as None.
setattr(entity, name, value) ==
    IF name \notin {"model", "plugin"} /\ entity[name] = None
    THEN [err |-> "none", entity |-> [entity EXCEPT ![name] = value]]
    ELSE [err |-> "FrozenInstanceError", entity |-> entity]

\* a _get_format_from_data that looks at '@type' alone
get_format_from_data_by_type(data) ==
    IF Truthy(Get(data, "@type")) THEN "jsonld" ELSE "json"

\* a __setattr__ that stores whatever it read before
setattr_store_unguarded(entity, current_value, value) ==
    [err |-> "none", entity |-> [entity EXCEPT !.persist_id = value]]

\* the second half of PostInitImmutable.__setattr__(self, 'persist_id',
\* value): `if current_value is None: super().__setattr__(name, value)`,
\* else FrozenInstanceError.  current_value was read by the getattr() on the
\* line before, which is not atomic with the store.
setattr_store(entity, current_value, value) ==
    IF current_value = None
    THEN [err |-> "none", entity |-> [entity EXCEPT !.persist_id = value]]
    ELSE [err |-> "FrozenInstanceError", entity |-> entity]

\* _get_format_from_data
get_format_from_data(data) ==
    IF \/ Truthy(Get(data, "@type"))
       \/ Truthy(Get(data, "@context"))
       \/ Truthy(Get(data, "@id"))
    THEN "jsonld" ELSE "json"

\* _extract_ld_data(data) with the format inferred from the data
extract_ld_data(data) ==
    IF get_format_from_data(data) = "jsonld"
    THEN extract_ld_data_from_jsonld(data)
    ELSE extract_ld_data_from_json(data)

\* a "copy" that hands back the mapping it was given
copy_sharing(orig_data) == [val |-> orig_data, shared |-> TRUE]

\* copy(orig_data): a new mapping with the same items
copy(orig_data) == [val |-> orig_data, shared |-> FALSE]

\* _extract_ld_data(data, data_format=None): the ExtractedLinkedDataResult or
\* the error raised, with the format used and what the caller's own mapping
\* holds afterwards.  _extract_ld_data_from_keys deletes the keys it extracts
\* from `data = copy(orig_data)`.
extract_ld_data_selected(orig_data, data_format) ==
    LET fmt == IF Truthy(data_format) THEN data_format
               ELSE get_format_from_data(orig_data)
        held(d, x) ==
            [err |-> "none", format |-> fmt, ret |-> x, shared |-> d.shared,
             input |-> IF d.shared THEN x.data ELSE orig_data]
        from_keys(d) ==
            held(d, IF fmt = "jsonld" THEN extract_ld_data_from_jsonld(d.val)
                    ELSE extract_ld_data_from_json(d.val))
    IN  IF ResolveFormat(fmt) # "ok"
        THEN [err |-> "ValueError", format |-> fmt, input |-> orig_data]
        ELSE IF fmt = "ipld"
        THEN [err |-> "NotImplementedError", format |-> fmt,
              input |-> orig_data]
        ELSE from_keys(copy(orig_data))

\* a load that takes the type and the context the plugin's data carries
model_load_adopting(kind, model, L, plugin, persist_id) ==
    LET fill(r, x) ==
            IF ~Validates(kind, x.data)
            THEN [err |-> "ModelDataError", model |-> model,
                  calls |-> r.calls]
            ELSE [err |-> "none",
                  model |-> [model EXCEPT
                                !.loaded = TRUE, !.data = x.data,
                                !.ld_id = IF x.ld_id = None THEN ""
                                          ELSE x.ld_id,
                                !.ld_type = IF x.ld_type = None THEN @
                                            ELSE x.ld_type,
                                !.ld_context = IF x.ld_context = None THEN @
                                               ELSE x.ld_context],
                  calls |-> r.calls]
        loaded(r) ==
            IF r.err # "none"
            THEN [err |-> r.err, model |-> model, calls |-> r.calls]
            ELSE fill(r, extract_ld_data(r.ret))
    IN  IF model.loaded THEN [err |-> "none", model |-> model, calls |-> <<>>]
        ELSE loaded(plugin_load(L, plugin, persist_id))

\* LazyLoadableModel.load(persist_id, plugin=plugin)
model_load(kind, model, L, plugin, persist_id) ==
    LET fill(r, x) ==
            IF \/ x.ld_type # None /\ x.ld_type # model.ld_type
               \/ x.ld_context # None /\ x.ld_context # model.ld_context
               \/ ~Validates(kind, x.data)
            THEN [err |-> "ModelDataError", model |-> model,
                  calls |-> r.calls]
            ELSE [err |-> "none",
                  model |-> [model EXCEPT !.loaded = TRUE, !.data = x.data,
                                          !.ld_id = IF x.ld_id = None THEN ""
                                                    ELSE x.ld_id],
                  calls |-> r.calls]
        loaded(r) ==
            IF r.err # "none"
            THEN [err |-> r.err, model |-> model, calls |-> r.calls]
            ELSE fill(r, extract_ld_data(r.ret))
    IN  IF model.loaded THEN [err |-> "none", model |-> model, calls |-> <<>>]
        ELSE loaded(plugin_load(L, plugin, persist_id))

\* a load that does not keep what the model loaded
load_forgetting(entity, L) ==
    LET loaded(r) == [err |-> r.err, entity |-> entity, calls |-> r.calls]
    IN  IF ~entity.model.lazy
        THEN [err |-> "none", entity |-> entity, calls |-> <<>>]
        ELSE IF entity.persist_id = None
        THEN [err |-> "EntityNotYetPersistedError", entity |-> entity,
              calls |-> <<>>]
        ELSE loaded(model_load(entity.kind, entity.model, L, entity.plugin,
                               entity.persist_id))

\* Entity.load
load(entity, L) ==
    LET loaded(r) == [err |-> r.err,
                      entity |-> [entity EXCEPT !.model = r.model],
                      calls |-> r.calls]
    IN  IF ~entity.model.lazy
        THEN [err |-> "none", entity |-> entity, calls |-> <<>>]
        ELSE IF entity.persist_id = None
        THEN [err |-> "EntityNotYetPersistedError", entity |-> entity,
              calls |-> <<>>]
        ELSE loaded(model_load(entity.kind, entity.model, L, entity.plugin,
                               entity.persist_id))

\* model.data: the data, or ModelNotYetLoadedError from a lazy model that
\* has loaded nothing
model_data(model) ==
    IF model.loaded THEN [err |-> "none", ret |-> model.data]
    ELSE [err |-> "ModelNotYetLoadedError", ret |-> EmptyDict]

\* Entity.data: a copy of the model's data, loading it first when the model
\* raises ModelNotYetLoadedError
data(entity, L) ==
    LET loaded(r) == [err |-> r.err, entity |-> r.entity,
                      ret |-> r.entity.model.data, calls |-> r.calls]
    IN  IF model_data(entity.model).err = "none"
        THEN [err |-> "none", entity |-> entity, ret |-> entity.model.data,
              calls |-> <<>>]
        ELSE loaded(load(entity, L))

\* Entity.history
history(entity, L) ==
    IF entity.persist_id = None
    THEN [err |-> "none", ret |-> <<>>, calls |-> <<>>]
    ELSE plugin_get_history(L, entity.plugin, entity.persist_id)

\* a status that asks the plugin whatever persist_id holds
status_always_asking(entity, L) ==
    plugin_get_status(L, entity.plugin, entity.persist_id)

\* Entity.status
status(entity, L) ==
    IF entity.persist_id = None
    THEN [err |-> "none", ret |-> None, calls |-> <<>>]
    ELSE plugin_get_status(L, entity.plugin, entity.persist_id)

\* a current_owner that reads the first event of the history
current_owner_first(entity, L) ==
    LET first(h) == [err |-> h.err,
                     ret |-> IF h.err = "none" /\ Len(h.ret) > 0
                             THEN h.ret[1].user ELSE None,
                     calls |-> h.calls]
    IN  first(history(entity, L))

\* Entity.current_owner
current_owner(entity, L) ==
    LET latest(h) == [err |-> h.err,
                      ret |-> IF h.err = "none" /\ Len(h.ret) > 0
                              THEN h.ret[Len(h.ret)].user ELSE None,
                      calls |-> h.calls]
    IN  latest(history(entity, L))

\* a from_persist_id that loads whatever force_load says
from_persist_id_eager(kind, persist_id, force_load, plugin, L) ==
    load([kind |-> kind, model |-> LazyModelFactory(kind), plugin |-> plugin,
          persist_id |-> persist_id, saves |-> 0, origin |-> "caller"], L)

\* Entity.from_persist_id
from_persist_id(kind, persist_id, force_load, plugin, L) ==
    LET made(entity) ==
            IF force_load THEN load(entity, L)
            ELSE [err |-> "none", entity |-> entity, calls |-> <<>>]
    IN  made([kind |-> kind, model |-> LazyModelFactory(kind),
              plugin |-> plugin, persist_id |-> persist_id, saves |-> 0,
              origin |-> "caller"])

\* Entity.create past its persist_id check: serialise, save, store the id
create_save(entity, L, user, data_format, outcome) ==
    LET fail(e, cs, ent) == [err |-> e, ret |-> None, existing_id |-> None,
                             entity |-> ent, ledger |-> L, calls |-> cs]
        \* self.persist_id = persist_id
        stored(d, s, w) ==
            [err |-> w.err, ret |-> IF w.err = "none" THEN s.ret ELSE None,
             existing_id |-> None,
             entity |-> [w.entity EXCEPT !.saves = @ + 1],
             ledger |-> s.ledger, calls |-> d.calls \o s.calls]
        \* persist_id = self.plugin.save(entity_data, user=user)
        saved(d, s) ==
            IF s.err # "none"
            THEN fail(s.err, d.calls \o s.calls,
                      [d.entity EXCEPT !.saves = @ + 1])
            ELSE stored(d, s, set_persist_id(d.entity, s.ret))
        \* entity_data = self._to_format(data_format=data_format)
        formatted(d, p) ==
            saved(d, plugin_save(L, entity.plugin, p.payload, user, outcome))
        got(d) ==
            IF d.err # "none" THEN fail(d.err, d.calls, entity)
            ELSE formatted(d, to_format(d.entity, data_format))
    IN  IF ResolveFormat(data_format) # "ok"
        THEN fail("ValueError", <<>>, entity)
        ELSE IF data_format = "ipld"
        THEN fail("NotImplementedError", <<>>, entity)
        ELSE got(data(entity, L))

\* a create() that swallows the error of a failed save
create_swallowing(entity, L, user, data_format, outcome) ==
    LET quiet(r) == IF r.err = "EntityCreationError"
                    THEN [r EXCEPT !.err = "none"] ELSE r
    IN  IF entity.kind = "RightsAssignment"
        THEN [err |-> "PersistenceError", ret |-> None, existing_id |-> None,
              entity |-> entity, ledger |-> L, calls |-> <<>>]
        ELSE IF entity.persist_id # None
        THEN [err |-> "EntityPreviouslyCreatedError", ret |-> None,
              existing_id |-> entity.persist_id, entity |-> entity,
              ledger |-> L, calls |-> <<>>]
        ELSE quiet(create_save(entity, L, user, data_format, outcome))

\* a create() that saves without looking at persist_id first
create_unchecked(entity, L, user, data_format, outcome) ==
    IF entity.kind = "RightsAssignment"
    THEN [err |-> "PersistenceError", ret |-> None, existing_id |-> None,
          entity |-> entity, ledger |-> L, calls |-> <<>>]
    ELSE create_save(entity, L, user, data_format, outcome)

\* a create() that RightsAssignment does not override
create_for_any_kind(entity, L, user, data_format, outcome) ==
    IF entity.persist_id # None
    THEN [err |-> "EntityPreviouslyCreatedError", ret |-> None,
          existing_id |-> entity.persist_id, entity |-> entity,
          ledger |-> L, calls |-> <<>>]
    ELSE create_save(entity, L, user, data_format, outcome)

\* a create() that tries the save a second time when the first one raised
create_retrying(entity, L, user, data_format, outcome) ==
    LET again(r, q) == [q EXCEPT !.calls = r.calls \o q.calls]
        tried(r) ==
            IF r.err = "EntityCreationError"
            THEN again(r, create_save(r.entity, L, user, data_format, "ok"))
            ELSE r
    IN  IF entity.kind = "RightsAssignment"
        THEN [err |-> "PersistenceError", ret |-> None, existing_id |-> None,
              entity |-> entity, ledger |-> L, calls |-> <<>>]
        ELSE IF entity.persist_id # None
        THEN [err |-> "EntityPreviouslyCreatedError", ret |-> None,
              existing_id |-> entity.persist_id, entity |-> entity,
              ledger |-> L, calls |-> <<>>]
        ELSE tried(create_save(entity, L, user, data_format, outcome))

\* a create() that saves the linked-data form when it is handed a selector
\* it cannot serve
create_falling_back(entity, L, user, data_format, outcome) ==
    IF entity.kind = "RightsAssignment"
    THEN [err |-> "PersistenceError", ret |-> None, existing_id |-> None,
          entity |-> entity, ledger |-> L, calls |-> <<>>]
    ELSE IF entity.persist_id # None
    THEN [err |-> "EntityPreviouslyCreatedError", ret |-> None,
          existing_id |-> entity.persist_id, entity |-> entity,
          ledger |-> L, calls |-> <<>>]
    ELSE create_save(entity, L, user,
                     IF data_format \in {"json", "jsonld"} THEN data_format
                     ELSE "jsonld", outcome)

\* Entity.create (RightsAssignment.create for a RightsAssignment)
create(entity, L, user, data_format, outcome) ==
    IF entity.kind = "RightsAssignment"
    THEN [err |-> "PersistenceError", ret |-> None, existing_id |-> None,
          entity |-> entity, ledger |-> L, calls |-> <<>>]
    ELSE IF entity.persist_id # None
    THEN [err |-> "EntityPreviouslyCreatedError", ret |-> None,
          existing_id |-> entity.persist_id, entity |-> entity,
          ledger |-> L, calls |-> <<>>]
    ELSE create_save(entity, L, user, data_format, outcome)

\* a transfer that hands the plugin whatever persist_id holds
entity_transfer_unchecked(entity, L, transfer_payload, from_user, to_user, outcome) ==
    plugin_transfer(L, entity.plugin, entity.persist_id, transfer_payload,
                    from_user, to_user, outcome)

\* a transfer that hands the plugin the two users the other way round
entity_transfer_swapped(entity, L, transfer_payload, from_user, to_user, outcome) ==
    IF entity.persist_id = None
    THEN [err |-> "EntityNotYetPersistedError", ret |-> None, ledger |-> L,
          calls |-> <<>>]
    ELSE plugin_transfer(L, entity.plugin, entity.persist_id,
                         transfer_payload, to_user, from_user, outcome)

\* TransferrableEntity.transfer
entity_transfer(entity, L, transfer_payload, from_user, to_user, outcome) ==
    IF entity.persist_id = None
    THEN [err |-> "EntityNotYetPersistedError", ret |-> None, ledger |-> L,
          calls |-> <<>>]
    ELSE plugin_transfer(L, entity.plugin, entity.persist_id,
                         transfer_payload, from_user, to_user, outcome)

\* a transfer that stamps the transfer id on the right as well
transfer_restamping(entity, L, rights_assignment_data, from_user, to_user, rights_assignment_format, outcome) ==
    LET fail(e, cs) == [err |-> e, ledger |-> L, calls |-> cs,
                       entity |-> entity]
        assigned(t, w) ==
            [err |-> w.err, ledger |-> t.ledger, calls |-> t.calls,
             entity |-> [entity EXCEPT !.persist_id = t.ret],
             rights_assignment |-> w.entity]
        transferred(ra, t) ==
            IF t.err # "none" THEN fail(t.err, t.calls)
            ELSE assigned(t, set_persist_id(ra.entity, t.ret))
        formatted(ra, p) ==
            IF p.err # "none" THEN fail(p.err, <<>>)
            ELSE transferred(ra, entity_transfer(entity, L, p.payload,
                                                 from_user, to_user, outcome))
        built(ra) ==
            IF ra.err # "none" THEN fail(ra.err, <<>>)
            ELSE formatted(ra, to_format(ra.entity, rights_assignment_format))
    IN  built(from_data("RightsAssignment",
                        IF rights_assignment_data \in {NoneDict, EmptyDict}
                        THEN EmptyDict ELSE rights_assignment_data,
                        "jsonld", entity.plugin))

\* Right.transfer: the right after the call and the RightsAssignment of the
\* transfer, or the error raised
transfer(entity, L, rights_assignment_data, from_user, to_user, rights_assignment_format, outcome) ==
    LET fail(e, cs) == [err |-> e, ledger |-> L, calls |-> cs,
                       entity |-> entity]
        assigned(t, w) ==
            [err |-> w.err, ledger |-> t.ledger, calls |-> t.calls,
             entity |-> entity, rights_assignment |-> w.entity]
        transferred(ra, t) ==
            IF t.err # "none" THEN fail(t.err, t.calls)
            ELSE assigned(t, set_persist_id(ra.entity, t.ret))
        formatted(ra, p) ==
            IF p.err # "none" THEN fail(p.err, <<>>)
            ELSE transferred(ra, entity_transfer(entity, L, p.payload,
                                                 from_user, to_user, outcome))
        built(ra) ==
            IF ra.err # "none" THEN fail(ra.err, <<>>)
            ELSE formatted(ra, to_format(ra.entity, rights_assignment_format))
    IN  built(from_data("RightsAssignment",
                        IF rights_assignment_data \in {NoneDict, EmptyDict}
                        THEN EmptyDict ELSE rights_assignment_data,
                        "jsonld", entity.plugin))

\* -------------------------------------------------- high-level functions
\* a work step that runs whatever manifestation_data holds
needs_work_always(manifestation_data) == TRUE

\* register_manifestation, line 140: is the work step needed?
needs_work(manifestation_data) ==
    ~Truthy(Get(manifestation_data, "manifestationOfWork"))

\* register_manifestation, line 143: the work data when none is given
default_work_data(manifestation_data) ==
    Put(EmptyDict, "name", Get(manifestation_data, "name"))

\* an existing_work check that looks at persist_id before the type
check_existing_work_reordered(work) ==
    IF work.persist_id = None THEN "EntityNotYetPersistedError"
    ELSE IF work.kind # "Work" THEN "TypeError"
    ELSE IF work.plugin # CoalaIpPlugin THEN "IncompatiblePluginError"
    ELSE "none"

\* register_manifestation, lines 147-161: the checks on existing_work
check_existing_work(work) ==
    IF work.kind # "Work" THEN "TypeError"
    ELSE IF work.persist_id = None THEN "EntityNotYetPersistedError"
    ELSE IF work.plugin # CoalaIpPlugin THEN "IncompatiblePluginError"
    ELSE "none"

\* a link that names the work by its name instead of its id
link_work_by_name(manifestation_data, work) ==
    Put(manifestation_data, "manifestationOfWork",
        Get(manifestation_data, "name"))

\* register_manifestation, line 163
link_work(manifestation_data, work) ==
    Put(manifestation_data, "manifestationOfWork", work.persist_id)

\* copyright data that names a fixed entity
copyright_data_fixed(manifestation) == Put(EmptyDict, "rightsOf", "ext9")

\* register_manifestation, line 169
copyright_data(manifestation) ==
    Put(EmptyDict, "rightsOf", manifestation.persist_id)

\* CoalaIp.register_manifestation.  `pool` holds the caller's entities,
\* existing_work is an index into it or NoEnt.  The result carries the error
\* raised ("none" on a normal return), the plugin calls made, the ledger,
\* manifestation_data as the call leaves it, the entities the call built and
\* the returned RegistrationResult.
register_manifestation(pool, L, manifestation_data, copyright_holder, existing_work, work_data, data_format, outcomes) ==
    LET P == CoalaIpPlugin
        fail(e, cs, led, md, built) ==
            [err |-> e, calls |-> cs, ledger |-> led, md |-> md,
             built |-> built, work |-> NoEnt]
        \* manifestation_copyright.create(copyright_holder, **kwargs)
        copyright_created(cs, md, built, work, cc) ==
            IF cc.err # "none"
            THEN fail(cc.err, cs \o cc.calls, cc.ledger, md,
                      Append(built, cc.entity))
            ELSE [err |-> "none", calls |-> cs \o cc.calls,
                  ledger |-> cc.ledger, md |-> md,
                  built |-> Append(built, cc.entity), work |-> work]
        \* Copyright.from_data(copyright_data, plugin=self.plugin)
        copyright_built(cs, led, md, built, work, k, c0) ==
            IF c0.err # "none" THEN fail(c0.err, cs, led, md, built)
            ELSE copyright_created(cs, md, built, work,
                                   create(c0.entity, led, copyright_holder,
                                          data_format, outcomes[k + 1]))
        \* manifestation.create(copyright_holder, **kwargs)
        manifestation_created(cs, md, built, work, k, mc) ==
            IF mc.err # "none"
            THEN fail(mc.err, cs \o mc.calls, mc.ledger, md,
                      Append(built, mc.entity))
            ELSE copyright_built(cs \o mc.calls, mc.ledger, md,
                                 Append(built, mc.entity), work, k,
                                 from_data("Copyright",
                                           copyright_data(mc.entity),
                                           "jsonld", P))
        \* Manifestation.from_data(manifestation_data, plugin=self.plugin)
        manifestation_built(cs, led, md, built, work, k, m0) ==
            IF m0.err # "none" THEN fail(m0.err, cs, led, md, built)
            ELSE manifestation_created(cs, md, built, work, k,
                                       create(m0.entity, led, copyright_holder,
                                              data_format, outcomes[k]))
        \* the Manifestation and Copyright steps, given the work step's
        \* outcome; `work` is the returned work: an index or NoEnt
        rest(cs, led, md, built, work, k) ==
            manifestation_built(cs, led, md, built, work, k,
                                from_data("Manifestation", md, "jsonld", P))
        \* work.create(copyright_holder, **kwargs)
        work_created(wc) ==
            IF wc.err # "none"
            THEN fail(wc.err, wc.calls, wc.ledger, manifestation_data,
                      <<wc.entity>>)
            ELSE rest(wc.calls, wc.ledger,
                      link_work(manifestation_data, wc.entity),
                      <<wc.entity>>, Len(pool) + 1, 2)
        \* Work.from_data(work_data, plugin=self.plugin)
        work_built(w0) ==
            IF w0.err # "none"
            THEN fail(w0.err, <<>>, L, manifestation_data, <<>>)
            ELSE work_created(create(w0.entity, L, copyright_holder,
                                     data_format, outcomes[1]))
    IN
    IF ~needs_work(manifestation_data)
    THEN rest(<<>>, L, manifestation_data, <<>>, NoEnt, 1)
    ELSE IF existing_work = NoEnt
    THEN work_built(from_data("Work",
                              IF work_data = NoneDict
                              THEN default_work_data(manifestation_data)
                              ELSE work_data,
                              "jsonld", P))
    ELSE IF check_existing_work(pool[existing_work]) # "none"
    THEN fail(check_existing_work(pool[existing_work]), <<>>, L,
              manifestation_data, <<>>)
    ELSE rest(<<>>, L, link_work(manifestation_data, pool[existing_work]),
              <<>>, existing_work, 1)

\* a test for the key itself, whatever value it holds
has_source_by_key(right_data) == "source" \in DOMAIN right_data

\* derive_right, line 220: is the source named in right_data?
has_source(right_data) == Truthy(Get(right_data, "source"))

\* a source_right check that looks at persist_id before the type
check_source_right_reordered(pool, source_right) ==
    IF source_right = NoEnt THEN "ValueError"
    ELSE IF pool[source_right].persist_id = None
    THEN "EntityNotYetPersistedError"
    ELSE IF pool[source_right].kind \notin RightKinds THEN "TypeError"
    ELSE IF pool[source_right].plugin # CoalaIpPlugin
    THEN "IncompatiblePluginError"
    ELSE "none"

\* derive_right, lines 237-254: the checks on source_right
check_source_right(pool, source_right) ==
    IF source_right = NoEnt THEN "ValueError"
    ELSE IF pool[source_right].kind \notin RightKinds THEN "TypeError"
    ELSE IF pool[source_right].persist_id = None
    THEN "EntityNotYetPersistedError"
    ELSE IF pool[source_right].plugin # CoalaIpPlugin
    THEN "IncompatiblePluginError"
    ELSE "none"

\* derive_right, line 256
link_source(right_data, source_right) ==
    Put(right_data, "source", source_right.persist_id)

\* a derive_right that loads the source as a Right first and as a Copyright
\* when that fails
derive_right_right_first(pool, L, right_data, current_holder, source_right, right_entity_cls, data_format, outcome) ==
    LET P == CoalaIpPlugin
        fail(e, cs, led, rd) ==
            [err |-> e, calls |-> cs, ledger |-> led, rd |-> rd,
             built |-> <<>>]
        \* right.create(current_holder, **kwargs)
        created(cs, rd, rc) ==
            [err |-> rc.err, calls |-> cs \o rc.calls, ledger |-> rc.ledger,
             rd |-> rd, built |-> <<rc.entity>>]
        \* right_entity_cls.from_data(right_data, plugin=self.plugin)
        built(cs, rd, r0) ==
            IF r0.err # "none" THEN fail(r0.err, cs, L, rd)
            ELSE created(cs, rd, create(r0.entity, L, current_holder,
                                        data_format, outcome))
        \* self.plugin.is_same_user(source_right.current_owner, current_holder)
        compared(cs, rd, q) ==
            IF ~q.ret THEN fail("ModelDataError", cs \o q.calls, L, rd)
            ELSE built(cs \o q.calls, rd,
                       from_data(right_entity_cls, rd, "jsonld", P))
        owned(cs, rd, o) ==
            IF o.err # "none" THEN fail(o.err, cs \o o.calls, L, rd)
            ELSE compared(cs \o o.calls, rd,
                          plugin_is_same_user(P, o.ret, current_holder))
        \* the ownership check and the creation of the new right
        rest(cs, src, rd) == owned(cs, rd, current_owner(src, L))
        as_right(a, b) ==
            IF b.err = "none"
            THEN rest(a.calls \o b.calls, b.entity, right_data)
            ELSE fail(b.err, a.calls \o b.calls, L, right_data)
        as_copyright(a) ==
            IF a.err = "none" THEN rest(a.calls, a.entity, right_data)
            ELSE IF a.err # "ModelDataError"
            THEN fail(a.err, a.calls, L, right_data)
            ELSE as_right(a, from_persist_id("Copyright",
                                             right_data["source"], TRUE, P,
                                             L))
    IN
    IF has_source(right_data)
    THEN as_copyright(from_persist_id("Right", right_data["source"], TRUE,
                                      P, L))
    ELSE IF check_source_right(pool, source_right) # "none"
    THEN fail(check_source_right(pool, source_right), <<>>, L, right_data)
    ELSE rest(<<>>, pool[source_right],
              link_source(right_data, pool[source_right]))

\* CoalaIp.derive_right.  source_right is an index into `pool` or NoEnt.
derive_right(pool, L, right_data, current_holder, source_right, right_entity_cls, data_format, outcome) ==
    LET P == CoalaIpPlugin
        fail(e, cs, led, rd) ==
            [err |-> e, calls |-> cs, ledger |-> led, rd |-> rd,
             built |-> <<>>]
        \* right.create(current_holder, **kwargs)
        created(cs, rd, rc) ==
            [err |-> rc.err, calls |-> cs \o rc.calls, ledger |-> rc.ledger,
             rd |-> rd, built |-> <<rc.entity>>]
        \* right_entity_cls.from_data(right_data, plugin=self.plugin)
        built(cs, rd, r0) ==
            IF r0.err # "none" THEN fail(r0.err, cs, L, rd)
            ELSE created(cs, rd, create(r0.entity, L, current_holder,
                                        data_format, outcome))
        \* self.plugin.is_same_user(source_right.current_owner, current_holder)
        compared(cs, rd, q) ==
            IF ~q.ret THEN fail("ModelDataError", cs \o q.calls, L, rd)
            ELSE built(cs \o q.calls, rd,
                       from_data(right_entity_cls, rd, "jsonld", P))
        owned(cs, rd, o) ==
            IF o.err # "none" THEN fail(o.err, cs \o o.calls, L, rd)
            ELSE compared(cs \o o.calls, rd,
                          plugin_is_same_user(P, o.ret, current_holder))
        \* the ownership check and the creation of the new right
        rest(cs, src, rd) == owned(cs, rd, current_owner(src, L))
        \* Right.from_persist_id(right_data['source'], force_load=True)
        as_right(a, b) ==
            IF b.err = "none"
            THEN rest(a.calls \o b.calls, b.entity, right_data)
            ELSE fail(b.err, a.calls \o b.calls, L, right_data)
        \* Copyright.from_persist_id(right_data['source'], force_load=True)
        as_copyright(a) ==
            IF a.err = "none" THEN rest(a.calls, a.entity, right_data)
            ELSE IF a.err # "ModelDataError"
            THEN fail(a.err, a.calls, L, right_data)
            ELSE as_right(a, from_persist_id("Right", right_data["source"],
                                             TRUE, P, L))
    IN
    IF has_source(right_data)
    THEN as_copyright(from_persist_id("Copyright", right_data["source"], TRUE,
                                      P, L))
    ELSE IF check_source_right(pool, source_right) # "none"
    THEN fail(check_source_right(pool, source_right), <<>>, L, right_data)
    ELSE rest(<<>>, pool[source_right],
              link_source(right_data, pool[source_right]))

\* a transfer_right that looks at persist_id before the type
transfer_right_reordered(pool, L, right, rights_assignment_data, current_holder, to, rights_assignment_format, outcome) ==
    LET fail(e) == [err |-> e, ledger |-> L, calls |-> <<>>,
                    entity |-> pool[right]]
    IN  IF pool[right].persist_id = None
        THEN fail("EntityNotYetPersistedError")
        ELSE IF pool[right].kind \notin RightKinds THEN fail("TypeError")
        ELSE IF pool[right].plugin # CoalaIpPlugin
        THEN fail("IncompatiblePluginError")
        ELSE transfer(pool[right], L, rights_assignment_data, current_holder,
                      to, rights_assignment_format, outcome)

\* CoalaIp.transfer_right
transfer_right(pool, L, right, rights_assignment_data, current_holder, to, rights_assignment_format, outcome) ==
    LET fail(e) == [err |-> e, ledger |-> L, calls |-> <<>>,
                    entity |-> pool[right]]
    IN  IF pool[right].kind \notin RightKinds THEN fail("TypeError")
        ELSE IF pool[right].persist_id = None
        THEN fail("EntityNotYetPersistedError")
        ELSE IF pool[right].plugin # CoalaIpPlugin
        THEN fail("IncompatiblePluginError")
        ELSE transfer(pool[right], L, rights_assignment_data, current_holder,
                      to, rights_assignment_format, outcome)

\* ------------------------------------------------------------- the state
VARIABLES
    ents,     \* the entities the caller holds, in order of construction
    ledger,   \* the ledger behind the plugins
    calls,    \* the plugin calls the latest operation made, in order
    last,     \* the latest operation: its arguments and its outcome
    frames    \* the create() call each thread of the caller is in

vars == <<ents, ledger, calls, last, frames>>

\* the threads of a caller that shares an entity between threads
Threads == {1, 2}

\* a thread that is not inside a create() call
IdleFrame ==
    [pc |-> "idle", e |-> NoEnt, user |-> None, create_id |-> None,
     current_value |-> None, result |-> "none"]

ExtCopyright ==
    [x \in {"rightsOf", "@context", "@type", "@id"} |->
        CASE x = "rightsOf" -> "extm"
          [] x = "@context" -> CtxCoalaip
          [] x = "@type" -> "Copyright"
          [] OTHER -> ""]

\* a Work the ledger knows without any ownership event
ExtWork ==
    [x \in {"name", "@context", "@type", "@id"} |->
        CASE x = "name" -> "n"
          [] x = "@context" -> CtxCoalaip
          [] x = "@type" -> "AbstractWork"
          [] OTHER -> ""]

Init ==
    /\ ents = <<>>
    /\ ledger = [store |-> Put(Put(EmptyDict, "ext1", ExtCopyright),
                               "ext0", ExtWork),
                 hist |-> Put(Put(EmptyDict, "ext1",
                                  <<Event("alice", "ext1")>>),
                              "ext0", <<>>),
                 next |-> 1]
    /\ calls = <<>>
    /\ last = [op |-> "init", result |-> "none"]
    /\ frames = [t \in Threads |-> IdleFrame]

\* ------------------------------------------------------------- inputs
FormatInputs == {"jsonld", "json", "ipld", "yaml"}

\* a data_format argument the caller leaves out
Omitted == "<omitted>"

\* (kind, data) pairs handed to from_data
EntityInputs ==
    {<<"Work", D1("name", "n")>>,
     <<"Work", EmptyDict>>,
     <<"Manifestation", D2("name", "n", "manifestationOfWork", "ext9")>>,
     <<"Right", D1("allowedBy", "ext1")>>,
     <<"Copyright", D1("rightsOf", "extm")>>,
     <<"RightsAssignment", EmptyDict>>}

ManifestationInputs ==
    {D1("name", "n"),
     D2("name", "n", "isManifestation", PyFalse),
     D2("name", "n", "manifestationOfWork", "ext9"),
     D2("name", "n", "manifestationOfWork", "")}

WorkDataInputs == {NoneDict, EmptyDict}

RightInputs ==
    {EmptyDict,
     D1("allowedBy", "ext1"),
     D1("rightsOf", "extm"),
     D1("source", "ext1"),
     D2("source", "ext1", "allowedBy", "ext1"),
     D2("source", "", "allowedBy", "ext1"),
     D2("source", "ext7", "allowedBy", "ext1")}

AssignmentInputs == {NoneDict, D1("action", "loan")}

PersistIdInputs == {"ext1", "ext7", None}
AssignedIdInputs == {"ext1", None}

\* ------------------------------------------------------------- actions
Entities == 1 .. Len(ents)

\* the entities the caller built itself, with from_data or from_persist_id;
\* the others were handed to it by transfer(), register_manifestation() or
\* derive_right()
CallerBuilt == {i \in Entities : ents[i].origin = "caller"}

Handed(built) == [i \in 1 .. Len(built) |-> [built[i] EXCEPT !.origin = "callee"]]

FromData(kind, d, data_format, plugin) ==
    LET step(r) ==
            /\ ents' = IF r.err = "none" THEN Append(ents, r.entity) ELSE ents
            /\ calls' = <<>>
            /\ last' = [op |-> "from_data", kind |-> kind, data |-> d,
                        data_format |-> data_format, result |-> r.err,
                        e |-> IF r.err = "none" THEN Len(ents) + 1 ELSE NoEnt]
            /\ UNCHANGED ledger
    IN  step(from_data(kind, d, data_format, plugin))

FromPersistId(kind, persist_id, force_load, plugin) ==
    LET step(r) ==
            /\ ents' = IF r.err = "none" THEN Append(ents, r.entity) ELSE ents
            /\ calls' = r.calls
            /\ last' = [op |-> "from_persist_id", kind |-> kind,
                        persist_id |-> persist_id, plugin |-> plugin,
                        force_load |-> force_load, result |-> r.err,
                        e |-> IF r.err = "none" THEN Len(ents) + 1 ELSE NoEnt]
            /\ UNCHANGED ledger
    IN  step(from_persist_id(kind, persist_id, force_load, plugin, ledger))

Create(e, user, data_format, outcome) ==
    LET step(r) ==
            /\ r.entity.saves <= MaxSaves
            /\ r.ledger.next <= MaxIds + 1
            /\ ents' = [ents EXCEPT ![e] = r.entity]
            /\ ledger' = r.ledger
            /\ calls' = r.calls
            /\ last' = [op |-> "create", e |-> e, result |-> r.err,
                        data_format |-> data_format,
                        ret |-> r.ret, existing_id |-> r.existing_id]
    IN  step(create(ents[e], ledger, user,
                    IF data_format = Omitted THEN "jsonld" ELSE data_format,
                    outcome))

Load(e) ==
    LET step(r) ==
            /\ ents' = [ents EXCEPT ![e] = r.entity]
            /\ calls' = r.calls
            /\ last' = [op |-> "load", e |-> e, result |-> r.err]
            /\ UNCHANGED ledger
    IN  step(load(ents[e], ledger))

DataAccess(e) ==
    LET step(r) ==
            /\ ents' = [ents EXCEPT ![e] = r.entity]
            /\ calls' = r.calls
            /\ last' = [op |-> "data", e |-> e, result |-> r.err,
                        ret |-> IF r.err = "none" THEN r.ret ELSE EmptyDict]
            /\ UNCHANGED ledger
    IN  step(data(ents[e], ledger))

\* The caller, or the plugin that was handed the mapping as a payload, writes
\* a key into a mapping an accessor returned.
MutateReturned(e, which) ==
    LET step(h, m) ==
            /\ ents[e].model.loaded
            /\ ents' = IF h.shared THEN [ents EXCEPT ![e].model.data = m]
                       ELSE ents
            /\ calls' = <<>>
            /\ last' = [op |-> "mutate", e |-> e, which |-> which,
                        result |-> "none", ret |-> m]
            /\ UNCHANGED ledger
        got(h) == step(h, Put(h.val, "new_data", "new_data"))
    IN  got(returned(ents[e], IF which = "payload" THEN "to_jsonld"
                              ELSE which))

Status(e) ==
    LET step(r) ==
            /\ calls' = r.calls
            /\ last' = [op |-> "status", e |-> e, result |-> r.err,
                        ret |-> r.ret]
            /\ UNCHANGED <<ents, ledger>>
    IN  step(status(ents[e], ledger))

History(e) ==
    LET step(r) ==
            /\ calls' = r.calls
            /\ last' = [op |-> "history", e |-> e, result |-> r.err,
                        ret |-> r.ret]
            /\ UNCHANGED <<ents, ledger>>
    IN  step(history(ents[e], ledger))

CurrentOwner(e) ==
    LET step(r) ==
            /\ calls' = r.calls
            /\ last' = [op |-> "current_owner", e |-> e, result |-> r.err,
                        ret |-> r.ret]
            /\ UNCHANGED <<ents, ledger>>
    IN  step(current_owner(ents[e], ledger))

\* entity.persist_id = value, assigned from outside the class
SetPersistId(e, value) ==
    LET step(r) ==
            /\ ents' = [ents EXCEPT ![e] = r.entity]
            /\ calls' = <<>>
            /\ last' = [op |-> "set_persist_id", e |-> e, value |-> value,
                        result |-> r.err]
            /\ UNCHANGED ledger
    IN  step(set_persist_id(ents[e], value))

\* _extract_ld_data(data, data_format): `data` is the caller's record as it
\* is after the call, `given` as it was before
Extract(orig_data, data_format) ==
    LET step(r) ==
            /\ last' = IF r.err # "none"
                       THEN [op |-> "extract", result |-> r.err,
                             given |-> orig_data, data_format |-> data_format,
                             format |-> r.format, data |-> r.input]
                       ELSE [op |-> "extract", result |-> r.err,
                             given |-> orig_data, data_format |-> data_format,
                             format |-> r.format, data |-> r.input,
                             ret |-> r.ret, shared |-> r.shared]
            /\ calls' = <<>>
            /\ UNCHANGED <<ents, ledger>>
    IN  step(extract_ld_data_selected(orig_data, data_format))

\* The caller writes a key into the plain data an extraction returned.
MutateExtracted ==
    /\ last.op = "extract"
    /\ last.result = "none"
    /\ last' = [last EXCEPT
                   !.op = "mutate_extracted",
                   !.ret.data = Put(@, "new_data", "new_data"),
                   !.data = IF last.shared
                            THEN Put(last.ret.data, "new_data", "new_data")
                            ELSE @]
    /\ calls' = <<>>
    /\ UNCHANGED <<ents, ledger>>

\* entity.<name> = value, by any code that holds the entity
SetAttr(e, name, value) ==
    LET step(r) ==
            /\ ents' = [ents EXCEPT ![e] = r.entity]
            /\ calls' = <<>>
            /\ last' = [op |-> "setattr", e |-> e, name |-> name,
                        value |-> value, result |-> r.err]
            /\ UNCHANGED ledger
    IN  step(setattr(ents[e], name, value))

\* ---- Entity.create(user), a statement at a time, as a thread runs it
\* `if self.persist_id is not None: raise EntityPreviouslyCreatedError`
CreateCheck(t, e, user) ==
    /\ frames[t].pc \in {"idle", "done"}
    /\ ents[e].kind # "RightsAssignment"
    /\ frames' = [frames EXCEPT ![t] =
                     IF ents[e].persist_id # None
                     THEN [IdleFrame EXCEPT
                              !.pc = "done", !.e = e, !.user = user,
                              !.result = "EntityPreviouslyCreatedError"]
                     ELSE [IdleFrame EXCEPT
                              !.pc = "checked", !.e = e, !.user = user]]
    /\ last' = [op |-> "create_step", step |-> "check", t |-> t, e |-> e,
                result |-> frames'[t].result]
    /\ calls' = <<>>
    /\ UNCHANGED <<ents, ledger>>

\* `entity_data = self._to_format(data_format)` and
\* `create_id = self.plugin.save(entity_data, user=user)`
CreateSave(t, outcome) ==
    LET f == frames[t]
        step(s) ==
            /\ s.ledger.next <= MaxIds + 1
            /\ ents[f.e].saves < MaxSaves
            /\ ents' = [ents EXCEPT ![f.e].saves = @ + 1]
            /\ ledger' = s.ledger
            /\ calls' = s.calls
            /\ frames' = [frames EXCEPT ![t] =
                             IF s.err # "none"
                             THEN [f EXCEPT !.pc = "done", !.result = s.err]
                             ELSE [f EXCEPT !.pc = "saved",
                                            !.create_id = s.ret]]
            /\ last' = [op |-> "create_step", step |-> "save", t |-> t,
                        e |-> f.e, result |-> s.err]
    IN  /\ f.pc = "checked"
        /\ step(plugin_save(ledger, ents[f.e].plugin,
                            to_format(ents[f.e], "jsonld").payload, f.user,
                            outcome))

\* `self.persist_id = create_id`, first half:
\* `current_value = getattr(self, name, None)`
SetattrRead(t) ==
    LET f == frames[t]
    IN  /\ f.pc = "saved"
        /\ frames' = [frames EXCEPT ![t] =
                         [f EXCEPT !.pc = "read",
                                   !.current_value = ents[f.e].persist_id]]
        /\ last' = [op |-> "create_step", step |-> "read", t |-> t,
                    e |-> f.e, result |-> "none"]
        /\ calls' = <<>>
        /\ UNCHANGED <<ents, ledger>>

\* `self.persist_id = create_id`, second half, and `return create_id`
SetattrStore(t) ==
    LET f == frames[t]
        step(r) ==
            /\ ents' = [ents EXCEPT ![f.e] = r.entity]
            /\ frames' = [frames EXCEPT ![t] =
                             [f EXCEPT !.pc = "done", !.result = r.err]]
            /\ last' = [op |-> "create_step", step |-> "store", t |-> t,
                        e |-> f.e, result |-> r.err]
            /\ calls' = <<>>
            /\ UNCHANGED ledger
    IN  /\ f.pc = "read"
        /\ step(setattr_store(ents[f.e], f.current_value, f.create_id))

Transfer(e, rights_assignment_data, from_user, to_user, rights_assignment_format, outcome) ==
    LET step(r) ==
            /\ ents[e].kind \in RightKinds
            /\ r.ledger.next <= MaxIds + 1
            /\ ents' = IF r.err = "none"
                       THEN [ents EXCEPT ![e] = r.entity]
                            \o Handed(<<r.rights_assignment>>)
                       ELSE [ents EXCEPT ![e] = r.entity]
            /\ ledger' = r.ledger
            /\ calls' = r.calls
            /\ last' = [op |-> "transfer", e |-> e,
                        rights_assignment_data |-> rights_assignment_data,
                        from_user |-> from_user, to_user |-> to_user,
                        rights_assignment_format |-> rights_assignment_format,
                        outcome |-> outcome, result |-> r.err,
                        ret |-> IF r.err = "none" THEN Len(ents) + 1
                                ELSE NoEnt]
    IN  step(transfer(ents[e], ledger, rights_assignment_data, from_user,
                      to_user, rights_assignment_format, outcome))

RegisterManifestation(manifestation_data, copyright_holder, existing_work, work_data, data_format, outcomes) ==
    LET step(r) ==
            /\ r.ledger.next <= MaxIds + 1
            /\ ents' = IF r.err = "none" THEN ents \o Handed(r.built)
                       ELSE ents
            /\ ledger' = r.ledger
            /\ calls' = r.calls
            /\ last' = [op |-> "register_manifestation",
                        manifestation_data |-> manifestation_data,
                        copyright_holder |-> copyright_holder,
                        existing_work |-> existing_work,
                        work_data |-> work_data, data_format |-> data_format,
                        result |-> r.err, md |-> r.md, built |-> r.built,
                        ret |-> IF r.err = "none"
                                THEN [copyright |-> Len(ents) + Len(r.built),
                                      manifestation |->
                                          Len(ents) + Len(r.built) - 1,
                                      work |-> r.work]
                                ELSE [copyright |-> NoEnt,
                                      manifestation |-> NoEnt,
                                      work |-> NoEnt]]
    IN  step(register_manifestation(ents, ledger, manifestation_data,
                                    copyright_holder, existing_work,
                                    work_data, data_format, outcomes))

DeriveRight(right_data, current_holder, source_right, right_entity_cls, data_format, outcome) ==
    LET step(r) ==
            /\ r.ledger.next <= MaxIds + 1
            /\ ents' = IF r.err = "none" THEN ents \o Handed(r.built)
                       ELSE ents
            /\ ledger' = r.ledger
            /\ calls' = r.calls
            /\ last' = [op |-> "derive_right", right_data |-> right_data,
                        current_holder |-> current_holder,
                        source_right |-> source_right,
                        right_entity_cls |-> right_entity_cls,
                        data_format |-> data_format, result |-> r.err,
                        rd |-> r.rd, built |-> r.built,
                        ret |-> IF r.err = "none" THEN Len(ents) + 1
                                ELSE NoEnt]
    IN  step(derive_right(ents, ledger, right_data, current_holder,
                          source_right, right_entity_cls, data_format,
                          outcome))

TransferRight(right, rights_assignment_data, current_holder, to, rights_assignment_format, outcome) ==
    LET step(r) ==
            /\ r.ledger.next <= MaxIds + 1
            /\ ents' = IF r.err = "none"
                       THEN [ents EXCEPT ![right] = r.entity]
                            \o Handed(<<r.rights_assignment>>)
                       ELSE [ents EXCEPT ![right] = r.entity]
            /\ ledger' = r.ledger
            /\ calls' = r.calls
            /\ last' = [op |-> "transfer_right", e |-> right,
                        rights_assignment_data |-> rights_assignment_data,
                        from_user |-> current_holder, to_user |-> to,
                        rights_assignment_format |-> rights_assignment_format,
                        outcome |-> outcome, result |-> r.err,
                        ret |-> IF r.err = "none" THEN Len(ents) + 1
                                ELSE NoEnt]
    IN  step(transfer_right(ents, ledger, right, rights_assignment_data,
                            current_holder, to, rights_assignment_format,
                            outcome))

\* The caller works with single entities: builds them, creates them on the
\* ledger, loads and queries them, and transfers rights.
NextEntity ==
    /\ UNCHANGED frames
    /\ \/ /\ Cardinality(CallerBuilt) < MaxEnt
          /\ \E i \in EntityInputs : FromData(i[1], i[2], "jsonld", CoalaIpPlugin)
       \/ /\ Cardinality(CallerBuilt) < MaxEnt
          /\ \E k \in {"Work", "Copyright"}, id \in {"ext1", "ext0", None},
                fl \in BOOLEAN :
                FromPersistId(k, id, fl, CoalaIpPlugin)
       \/ \E e \in Entities, f \in {"jsonld", "ipld"}, o \in SaveOutcomes :
             Create(e, "alice", f, o)
       \/ \E e \in Entities : Load(e)
       \/ \E e \in Entities : DataAccess(e)
       \/ \E e \in Entities : Status(e)
       \/ \E e \in Entities : History(e)
       \/ \E e \in Entities : CurrentOwner(e)
       \/ \E e \in Entities, v \in AssignedIdInputs : SetPersistId(e, v)
       \/ /\ Len(ents) <= MaxEnt
          /\ \E e \in Entities, o \in TransferOutcomes :
                Transfer(e, NoneDict, "alice", "bob", "jsonld", o)

SpecEntity == Init /\ [][NextEntity]_vars

\* what the three saves of one register_manifestation call do, in order
RegisterOutcomes ==
    {<<"ok", "ok", "ok">>, <<"raise", "ok", "ok">>, <<"ok", "raise", "ok">>,
     <<"ok", "ok", "raise">>, <<"none", "ok", "ok">>, <<"ok", "none", "ok">>}

\* the entities a caller hands to register_manifestation as existing_work
ExistingWorkInputs ==
    {<<"Work", D1("name", "n"), "p1">>,
     <<"Work", D1("name", "n"), "p2">>,
     <<"Manifestation", D2("name", "n", "manifestationOfWork", "ext9"), "p1">>}

\* the ids the ledger handed out that no entity of the caller holds: what a
\* failed registration leaves behind
Orphans ==
    {i \in 1 .. (ledger.next - 1) :
        \A e \in Entities : ents[e].persist_id # IdNames[i]}

\* The caller registers manifestations, with or without a work of its own,
\* until a registration fails half-way.
NextRegister ==
    /\ UNCHANGED frames
    /\ \/ /\ Cardinality(CallerBuilt) < MaxEnt
          /\ \E i \in ExistingWorkInputs : FromData(i[1], i[2], "jsonld", i[3])
       \/ \E e \in CallerBuilt : Create(e, "alice", "jsonld", "ok")
       \/ /\ Len(ents) <= MaxEnt
          /\ Orphans = {}
          /\ \E md \in ManifestationInputs, u \in Users,
                w \in {NoEnt} \cup Entities, wd \in WorkDataInputs,
                os \in RegisterOutcomes :
                RegisterManifestation(md, u, w, wd, "jsonld", os)

SpecRegister == Init /\ [][NextRegister]_vars

\* the entities a caller hands to derive_right as source_right
SourceRightInputs ==
    {<<"Copyright", D1("rightsOf", "extm"), "p1">>,
     <<"Copyright", D1("rightsOf", "extm"), "p2">>,
     <<"Right", D1("allowedBy", "ext1"), "p1">>,
     <<"Work", D1("name", "n"), "p1">>}

\* The caller derives rights from rights of its own or from rights it names
\* by id.
NextDerive ==
    /\ UNCHANGED frames
    /\ \/ /\ Cardinality(CallerBuilt) < MaxEnt
          /\ \E i \in SourceRightInputs : FromData(i[1], i[2], "jsonld", i[3])
       \/ \E e \in CallerBuilt : Create(e, "alice", "jsonld", "ok")
       \/ /\ Len(ents) <= MaxEnt
          /\ Orphans = {}
          /\ \E rd \in RightInputs, u \in Users, src \in {NoEnt} \cup Entities,
                cls \in RightKinds, o \in SaveOutcomes :
                DeriveRight(rd, u, src, cls, "jsonld", o)

SpecDerive == Init /\ [][NextDerive]_vars

\* a Right the ledger knows, held by bob
ExtRight ==
    [x \in {"allowedBy", "@context", "@type", "@id"} |->
        CASE x = "allowedBy" -> "ext1"
          [] x = "@context" -> CtxCoalaip
          [] x = "@type" -> "Right"
          [] OTHER -> ""]

InitSource ==
    /\ ents = <<>>
    /\ ledger = [store |-> Put(Put(Put(EmptyDict, "ext1", ExtCopyright),
                                   "ext0", ExtWork),
                               "ext2", ExtRight),
                 hist |-> Put(Put(Put(EmptyDict, "ext1",
                                      <<Event("alice", "ext1")>>),
                                  "ext0", <<>>),
                              "ext2", <<Event("bob", "ext2")>>),
                 next |-> 1]
    /\ calls = <<>>
    /\ last = [op |-> "init", result |-> "none"]
    /\ frames = [t \in Threads |-> IdleFrame]

\* right data naming its source: a stored Copyright, a stored Right, a stored
\* Work, an id the ledger does not know, and a source that is not truthy
SourcedInputs ==
    {D2("source", "ext1", "allowedBy", "ext1"),
     D2("source", "ext2", "allowedBy", "ext1"),
     D2("source", "ext0", "allowedBy", "ext1"),
     D2("source", "ext7", "allowedBy", "ext1"),
     D2("source", "", "allowedBy", "ext1"),
     D1("source", "ext2")}

NextSource ==
    /\ UNCHANGED frames
    /\ Len(ents) <= MaxEnt
    /\ \E rd \in SourcedInputs, u \in Users, src \in {NoEnt} \cup Entities,
          cls \in RightKinds, o \in SaveOutcomes :
          DeriveRight(rd, u, src, cls, "jsonld", o)

SpecSource == InitSource /\ [][NextSource]_vars

\* The caller registers manifestations, derives rights from what the ledger
\* holds and transfers the rights it was handed.
NextOrchestrate ==
    /\ UNCHANGED frames
    /\ \/ /\ Len(ents) < MaxEnt
          /\ \E md \in {D1("name", "n"),
                        D2("name", "n", "isManifestation", PyFalse)},
                wd \in WorkDataInputs, os \in RegisterOutcomes :
                RegisterManifestation(md, "alice", NoEnt, wd, "jsonld", os)
       \/ /\ Len(ents) < MaxEnt
          /\ \E rd \in SourcedInputs, u \in Users, cls \in RightKinds,
                o \in SaveOutcomes :
                DeriveRight(rd, u, NoEnt, cls, "jsonld", o)
       \/ /\ Len(ents) <= MaxEnt + 3
          /\ \E e \in Entities, o \in TransferOutcomes :
                TransferRight(e, NoneDict, "alice", "bob", "jsonld", o)

SpecOrchestrate == InitSource /\ [][NextOrchestrate]_vars

\* the values a caller assigns to an entity's attributes
AttrInputs(e) ==
    {<<"persist_id", v>> : v \in {"ext1", "ext7", "", None}}
    \cup {<<"plugin", v>> : v \in Plugins}
    \cup {<<"model", [ents[e].model EXCEPT !.data = EmptyDict]>>,
          <<"model", ents[e].model>>}

\* The caller builds entities, creates them and assigns to their attributes.
NextImmutable ==
    /\ UNCHANGED frames
    /\ \/ /\ Cardinality(CallerBuilt) < MaxEnt
          /\ \E i \in EntityInputs : FromData(i[1], i[2], "jsonld", CoalaIpPlugin)
       \/ \E e \in Entities, o \in SaveOutcomes : Create(e, "alice", "jsonld", o)
       \/ \E e \in Entities : \E a \in AttrInputs(e) : SetAttr(e, a[1], a[2])

SpecImmutable == Init /\ [][NextImmutable]_vars

\* Two threads of the caller call create() on the entities they share; the
\* scheduler may switch threads between any two statements.
NextRace ==
    \/ /\ Cardinality(CallerBuilt) < MaxEnt
       /\ UNCHANGED frames
       /\ \E i \in {<<"Work", D1("name", "n")>>,
                     <<"Right", D1("allowedBy", "ext1")>>} :
             FromData(i[1], i[2], "jsonld", CoalaIpPlugin)
    \/ \E t \in Threads, e \in Entities : CreateCheck(t, e, "alice")
    \/ \E t \in Threads, o \in SaveOutcomes : CreateSave(t, o)
    \/ \E t \in Threads : SetattrRead(t)
    \/ \E t \in Threads : SetattrStore(t)

SpecRace == Init /\ [][NextRace]_vars

\* the entities a caller builds to transfer, or to hand to transfer_right
TransferInputs ==
    {<<"Copyright", D1("rightsOf", "extm"), "p1">>,
     <<"Copyright", D1("rightsOf", "extm"), "p2">>,
     <<"Right", D1("allowedBy", "ext1"), "p1">>,
     <<"Work", D1("name", "n"), "p1">>,
     <<"RightsAssignment", EmptyDict, "p1">>}

\* the entities the caller was handed: the RightsAssignments of its transfers
Assignments == Entities \ CallerBuilt

\* The caller builds its entities, then transfers rights, through
\* Right.transfer or through transfer_right, and tries to create the
\* RightsAssignments itself.
NextTransfer ==
    /\ UNCHANGED frames
    /\ \/ /\ Cardinality(CallerBuilt) < MaxEnt
          /\ Assignments = {}
          /\ \E i \in TransferInputs : FromData(i[1], i[2], "jsonld", i[3])
       \/ /\ Cardinality(CallerBuilt) < MaxEnt
          /\ Assignments = {}
          /\ \E k \in {"Copyright", "RightsAssignment"} :
                FromPersistId(k, "ext1", FALSE, CoalaIpPlugin)
       \/ \E e \in CallerBuilt :
             ents[e].kind = "RightsAssignment" /\ SetPersistId(e, "ext1")
       \/ \E e \in CallerBuilt : Create(e, "alice", "jsonld", "ok")
       \/ \E e \in Entities, u \in Users, f \in {"jsonld", "yaml"},
             o \in {"ok", "raise"} :
             ents[e].kind = "RightsAssignment" /\ Create(e, u, f, o)
       \/ /\ Len(ents) <= MaxEnt + 1
          /\ \E e \in CallerBuilt, ad \in AssignmentInputs, v \in Users,
                f \in FormatInputs, o \in TransferOutcomes :
                Transfer(e, ad, "alice", v, f, o)
       \/ /\ Len(ents) <= MaxEnt + 1
          /\ \E e \in CallerBuilt, ad \in AssignmentInputs,
                f \in {"jsonld", "yaml"}, o \in TransferOutcomes :
                TransferRight(e, ad, "alice", "bob", f, o)

SpecTransfer == Init /\ [][NextTransfer]_vars

\* the records a ledger may hold under the id "ext1": a work or a
\* manifestation with or without a type, a context and an identifier of its
\* own
WithKey(d, k, v) == IF v = None THEN d ELSE Put(d, k, v)

BackendRecords ==
    {WithKey(WithKey(WithKey(WithKey(D1("name", "n"),
                                     "manifestationOfWork", w),
                             "@type", t), "@context", c), "@id", i) :
        w \in {None, "ext0"},
        t \in {None, "AbstractWork", "CreativeWork"},
        c \in {None, CtxCoalaip, DEFAULT_LD_CONTEXT},
        i \in {None, "ext1"}}
    \cup {D2("name", "n", "type", t) : t \in {"AbstractWork", "CreativeWork"}}

InitLoad ==
    /\ ents = <<>>
    /\ \E rec \in BackendRecords :
          ledger = [store |-> Put(EmptyDict, "ext1", rec),
                    hist |-> Put(EmptyDict, "ext1",
                                 <<Event("alice", "ext1")>>),
                    next |-> 1]
    /\ calls = <<>>
    /\ last = [op |-> "init", result |-> "none"]
    /\ frames = [t \in Threads |-> IdleFrame]

\* The caller reconstructs an entity from the id of a record the ledger
\* holds, and loads it or reads its data.
NextLoad ==
    /\ UNCHANGED frames
    /\ \/ /\ Cardinality(CallerBuilt) < MaxEnt
          /\ \E k \in {"Work", "Manifestation"}, fl \in BOOLEAN :
                FromPersistId(k, "ext1", fl, CoalaIpPlugin)
       \/ \E e \in Entities : Load(e)
       \/ \E e \in Entities : DataAccess(e)

SpecLoad == InitLoad /\ [][NextLoad]_vars

\* the mappings an entity hands out: what its accessors return, and the
\* payload create() and transfer() hand to the plugin
Accessors == {"data", "to_json", "to_jsonld", "payload"}

\* (kind, data, format) triples whose data names an identifier, a type or a
\* context
IdentifiedInputs ==
    {<<"Work", D2("name", "n", "@id", "id1"), "jsonld">>,
     <<"Right", Put(Put(D2("allowedBy", "ext1", "@id", "id1"), "@type", "X"),
                    "@context", DEFAULT_LD_CONTEXT), "jsonld">>,
     <<"Right", D2("allowedBy", "ext1", "@id", ""), "json">>,
     <<"Right", D2("allowedBy", "ext1", "type", "X"), "json">>}

\* The caller builds entities from data in either data format and creates
\* them on the ledger, whatever the format selector and whether the save
\* works or raises; it writes into the mappings the entities hand out.
NextCreate ==
    /\ UNCHANGED frames
    /\ \/ /\ Cardinality(CallerBuilt) < MaxEnt
          /\ \E i \in IdentifiedInputs : FromData(i[1], i[2], i[3], CoalaIpPlugin)
       \/ \E e \in Entities, f \in FormatInputs \cup {Omitted},
             o \in {"ok", "raise"} :
             Create(e, "alice", f, o)
       \/ \E e \in Entities, w \in Accessors : MutateReturned(e, w)

SpecCreate == Init /\ [][NextCreate]_vars

\* the raw data handed to from_data: the data a Work or a Right needs, with
\* or without each of the keys one of the two formats reads as metadata
RawData(kind) ==
    IF kind = "Work" THEN D1("name", "n") ELSE D1("allowedBy", "ext1")

RawInputs(kind) ==
    {WithKey(WithKey(WithKey(WithKey(RawData(kind), "type", t),
                             "@type", lt), "@context", c), "@id", i) :
        t \in {None, "X"},
        lt \in {None, "X", ""},
        c \in {None, CtxCoalaip, ""},
        i \in {None, "", "id1"}}

\* The caller builds an entity from raw data, serialises it with to_jsonld()
\* and extracts the linked-data metadata from what it got, twice over.
RoundTrip(kind, raw, data_format) ==
    LET tripped(ld, x, y) ==
            [op |-> "round_trip", result |-> "none", kind |-> kind,
             raw |-> raw, data_format |-> data_format, jsonld |-> ld,
             plain |-> x.data, again |-> y.data]
        twice(ld, x) == tripped(ld, x, extract_ld_data(x.data))
        once(ld) == twice(ld, extract_ld_data(ld))
        step(r) ==
            /\ last' = IF r.err # "none"
                       THEN [op |-> "round_trip", result |-> r.err,
                             kind |-> kind, raw |-> raw,
                             data_format |-> data_format]
                       ELSE once(to_jsonld(r.entity))
            /\ calls' = <<>>
            /\ UNCHANGED <<ents, ledger>>
    IN  step(from_data(kind, raw, data_format, CoalaIpPlugin))

NextFormats ==
    /\ UNCHANGED frames
    /\ \E k \in {"Work", "Right"}, f \in {"json", "jsonld"} :
          \E raw \in RawInputs(k) : RoundTrip(k, raw, f)

SpecFormats == Init /\ [][NextFormats]_vars

\* the selectors a caller gives, None and '' being no selector
SelectorInputs == {None, "", "jsonld", "json", "ipld", "yaml"}

\* The caller extracts the linked-data metadata of records, and writes into
\* the plain data it gets.
NextExtract ==
    /\ UNCHANGED frames
    /\ \/ \E raw \in RawInputs("Work"), f \in SelectorInputs : Extract(raw, f)
       \/ MutateExtracted

SpecExtract == Init /\ [][NextExtract]_vars

\* a key the data does not have
Absent == "<absent>"

WithOpt(d, k, v) == IF v = Absent THEN d ELSE Put(d, k, v)

\* the values a key of the data may hold, or not be there at all
KeyInputs(s) == {Absent, s, "", PyInt, None}

\* the data handed to the from_data of each kind of validated entity
CreationInputs ==
    {WithOpt(WithOpt(WithOpt(EmptyDict, "name", n),
                     "manifestationOfWork", w), "isManifestation", m) :
        n \in KeyInputs("n"), w \in KeyInputs("ext0"),
        m \in {Absent, PyTrue, PyFalse}}

RightDataInputs ==
    {WithOpt(WithOpt(WithOpt(EmptyDict, "rightsOf", r), "allowedBy", a),
             "source", x) :
        r \in KeyInputs("extm"), a \in KeyInputs("ext1"),
        x \in {Absent, "ext1"}}

\* the key each data format names the type of an entity with
TypeKey(data_format) == IF data_format = "jsonld" THEN "@type" ELSE "type"

\* (kind, data, format) triples of valid data that name a type of their own
\* (test_entities.py: mock_entity_type) in the way of their format
TypedInputs ==
    {<<i[1], Put(i[2], TypeKey(f), "X"), f>> :
        i \in EntityInputs \ {<<"Work", EmptyDict>>}, f \in {"json", "jsonld"}}

\* The caller builds works, manifestations and rights from data of every
\* shape.
NextValidate ==
    /\ UNCHANGED frames
    /\ Cardinality(CallerBuilt) < MaxEnt
    /\ \/ \E k \in {"Work", "Manifestation"}, d \in CreationInputs :
             FromData(k, d, "jsonld", CoalaIpPlugin)
       \/ \E k \in {"Right", "Copyright"}, d \in RightDataInputs :
             FromData(k, d, "jsonld", CoalaIpPlugin)
       \/ \E i \in TypedInputs : FromData(i[1], i[2], i[3], CoalaIpPlugin)

SpecValidate == Init /\ [][NextValidate]_vars

\* ------------------------------------------------------------- claims
CreatableKinds == {"Work", "Manifestation", "Right", "Copyright"}

\* C1: once create() has succeeded on an entity (its save returned an id),
\* every later create() on that entity raises EntityPreviouslyCreatedError
\* carrying the id the successful create() returned, and makes no plugin
\* call: the entity's number of save() calls stays what the successful
\* create() left it at (one, when that create() was the first).
C1_CreateTwiceRaises ==
    [][\A e \in Entities :
          /\ ( /\ ents[e].kind \in CreatableKinds
               /\ ents[e].persist_id = None
               /\ last'.op = "create" /\ last'.e = e
               /\ last'.result = "none" /\ last'.ret # None )
             => /\ ents'[e].persist_id = last'.ret
                /\ calls'[Len(calls')].op = "save"
                /\ calls'[Len(calls')].ret = last'.ret
                /\ ents'[e].saves = ents[e].saves + 1
          /\ ( /\ ents[e].kind \in CreatableKinds
               /\ ents[e].persist_id # None
               /\ ents[e].saves >= 1 )
             => /\ ents'[e].persist_id = ents[e].persist_id
                /\ ents'[e].saves = ents[e].saves
                /\ (last'.op = "create" /\ last'.e = e)
                   => /\ last'.result = "EntityPreviouslyCreatedError"
                      /\ last'.existing_id = ents[e].persist_id
                      /\ calls' = <<>>
                      /\ ledger' = ledger
      ]_vars

C1_Witness ==
    /\ last.op = "create"
    /\ last.result = "EntityPreviouslyCreatedError"
    /\ ents[last.e].saves = 1
    /\ last.existing_id = ents[last.e].persist_id

\* C2: whatever operation runs (create, load, data access, the status,
\* history and current_owner queries, transfer, an assignment to persist_id),
\* an entity whose persist_id holds a value keeps exactly that value: it
\* neither becomes None again nor changes.
C2_PersistIdNeverReverts ==
    [][\A e \in Entities :
          ents[e].persist_id # None
          => ents'[e].persist_id = ents[e].persist_id]_vars

C2_Witness ==
    /\ last.op = "transfer"
    /\ last.result = "none"
    /\ ents[last.e].saves = 1
    /\ ents[last.e].persist_id # None
    /\ ents[last.ret].persist_id # None

\* ------------------------------------------ claims on register_manifestation
Registered == last.op = "register_manifestation"

\* the save() calls among the plugin calls of the latest operation
SaveCalls == {i \in 1 .. Len(calls) : calls[i].op = "save"}

\* every save() the latest operation made returned an id
SavesSucceeded == \A i \in SaveCalls : calls[i].ret \notin {Raised, None}

HasWorkKey(manifestation_data) ==
    "manifestationOfWork" \in DOMAIN manifestation_data

\* manifestation_data is valid model data for a Manifestation once it is
\* linked to a work
ValidManifestationData(manifestation_data) ==
    is_manifestation_model(Put(manifestation_data, "manifestationOfWork", "w"))

\* the work data the call uses is valid model data for a Work
ValidWorkData(manifestation_data, work_data) ==
    is_work_model(IF work_data = NoneDict
                  THEN default_work_data(manifestation_data) ELSE work_data)

ExistingWorkErrors ==
    {"TypeError", "EntityNotYetPersistedError", "IncompatiblePluginError"}

\* the i-th save() of the latest operation saved entity x for the user
SavedAs(i, x, user) ==
    /\ calls[i].op = "save"
    /\ calls[i].plugin = CoalaIpPlugin
    /\ calls[i].user = user
    /\ calls[i].payload = to_format(x, last.data_format).payload
    /\ x.persist_id = calls[i].ret
    /\ x.persist_id \in DOMAIN ledger.store
    /\ ledger.store[x.persist_id] = calls[i].payload

\* C3: a registration of valid manifestation data without the
\* 'manifestationOfWork' key and without existing_work, all of whose saves
\* return ids, returns normally having made exactly three plugin calls: the
\* save of the work, of the manifestation and of the copyright, in that
\* order, each for copyright_holder; each returned entity holds the id its
\* save returned, the manifestation's 'manifestationOfWork' is the work's
\* persist_id and the copyright's 'rightsOf' is the manifestation's.
C3_RegistersWorkManifestationCopyright ==
    ( /\ Registered
      /\ ~HasWorkKey(last.manifestation_data)
      /\ last.existing_work = NoEnt
      /\ ValidManifestationData(last.manifestation_data)
      /\ ValidWorkData(last.manifestation_data, last.work_data)
      /\ SavesSucceeded )
    => /\ last.result = "none"
       /\ Len(calls) = 3
       /\ ents[last.ret.work].kind = "Work"
       /\ ents[last.ret.manifestation].kind = "Manifestation"
       /\ ents[last.ret.copyright].kind = "Copyright"
       /\ SavedAs(1, ents[last.ret.work], last.copyright_holder)
       /\ SavedAs(2, ents[last.ret.manifestation], last.copyright_holder)
       /\ SavedAs(3, ents[last.ret.copyright], last.copyright_holder)
       /\ ents[last.ret.manifestation].model.data["manifestationOfWork"]
             = ents[last.ret.work].persist_id
       /\ ents[last.ret.copyright].model.data["rightsOf"]
             = ents[last.ret.manifestation].persist_id

C3_Witness ==
    /\ Registered
    /\ ~HasWorkKey(last.manifestation_data)
    /\ last.existing_work = NoEnt
    /\ last.result = "none"
    /\ Len(calls) = 3
    /\ ents[last.ret.copyright].persist_id = calls[3].ret

\* C4: when a registration fails after one of its saves returned an id, the
\* error raised is the error of the failing step (EntityCreationError when a
\* save raised, ModelDataError when an entity could not be built), the failing
\* step is the last thing the call did (every plugin call is a save, none
\* follows a save that raised, and a step that failed to build made no call),
\* and what the earlier saves stored is still on the ledger under the ids
\* they returned.
C4_NoRollback ==
    ( /\ Registered
      /\ last.result # "none"
      /\ \E i \in SaveCalls : calls[i].ret \notin {Raised, None} )
    => /\ SaveCalls = 1 .. Len(calls)
       /\ \A i \in 1 .. (Len(calls) - 1) : calls[i].ret # Raised
       /\ last.result \in {"EntityCreationError", "ModelDataError"}
       /\ (last.result = "EntityCreationError")
             <=> (calls[Len(calls)].ret = Raised)
       /\ Len(calls) <= 3
       /\ \A i \in SaveCalls :
             calls[i].ret \notin {Raised, None}
             => /\ calls[i].ret \in DOMAIN ledger.store
                /\ ledger.store[calls[i].ret] = calls[i].payload
                /\ last.built[i].persist_id = calls[i].ret

C4_Witness ==
    /\ Registered
    /\ last.result = "EntityCreationError"
    /\ Len(calls) = 3
    /\ calls[3].ret = Raised
    /\ calls[1].ret \in DOMAIN ledger.store
    /\ calls[2].ret \in DOMAIN ledger.store

\* no Work was built or saved by the latest registration
NoWorkBuilt ==
    /\ \A i \in 1 .. Len(last.built) : last.built[i].kind # "Work"
    /\ \A i \in SaveCalls : calls[i].payload["@type"] # "AbstractWork"

\* the latest registration ran no work step: it built no Work, looked at no
\* existing_work and returned no work
NoWorkStep ==
    /\ NoWorkBuilt
    /\ last.result \notin ExistingWorkErrors
    /\ last.result = "none" => last.ret.work = NoEnt

\* C5 as stated: whenever manifestation_data contains the
\* 'manifestationOfWork' key, whatever its value, no Work is built or saved,
\* existing_work and work_data play no part, the key keeps its value and the
\* returned work is None.
C5_AnyValueSkipsWork ==
    (Registered /\ HasWorkKey(last.manifestation_data))
    => /\ NoWorkStep
       /\ last.md = last.manifestation_data

\* C5, amended: when the value manifestation_data holds under
\* 'manifestationOfWork' is truthy, no Work is built or saved, existing_work
\* and work_data play no part, the data keeps the value and the returned work
\* is None; when the key is there with a falsy value (None, an empty string)
\* and the call returns normally, a work was used and the key was overwritten
\* with its persist_id.
C5_TruthyValueSkipsWork ==
    /\ ( /\ Registered
         /\ Truthy(Get(last.manifestation_data, "manifestationOfWork")) )
       => /\ NoWorkStep
          /\ last.md = last.manifestation_data
          /\ \A i \in 1 .. Len(last.built) :
                last.built[i].kind = "Manifestation"
                => last.built[i].model.data["manifestationOfWork"]
                      = last.manifestation_data["manifestationOfWork"]
    /\ ( /\ Registered
         /\ HasWorkKey(last.manifestation_data)
         /\ ~Truthy(last.manifestation_data["manifestationOfWork"])
         /\ last.result = "none" )
       => /\ last.ret.work # NoEnt
          /\ last.md["manifestationOfWork"] = ents[last.ret.work].persist_id

C5_Witness ==
    /\ Registered
    /\ Truthy(Get(last.manifestation_data, "manifestationOfWork"))
    /\ last.existing_work # NoEnt
    /\ last.work_data # NoneDict
    /\ last.result = "none"
    /\ Len(calls) = 2
    /\ last.ret.work = NoEnt

\* existing_work passes the three checks of register_manifestation
UsableWork(w) ==
    /\ w # NoEnt
    /\ ents[w].kind = "Work"
    /\ ents[w].persist_id # None
    /\ ents[w].plugin = CoalaIpPlugin

\* C6: a registration without the 'manifestationOfWork' key but with an
\* existing_work that is a persisted Work of the orchestrator's plugin leaves
\* that work as it was, builds and saves no Work whatever work_data is, and
\* links manifestation_data to existing_work.persist_id; with valid
\* manifestation data and saves that return ids it returns normally after
\* exactly two saves, the manifestation's and then the copyright's, and the
\* work it returns is existing_work.
C6_ReusesExistingWork ==
    [][( /\ last'.op = "register_manifestation"
         /\ ~HasWorkKey(last'.manifestation_data)
         /\ UsableWork(last'.existing_work) )
       => /\ ents'[last'.existing_work] = ents[last'.existing_work]
          /\ NoWorkBuilt'
          /\ last'.md = Put(last'.manifestation_data, "manifestationOfWork",
                            ents[last'.existing_work].persist_id)
          /\ (ValidManifestationData(last'.manifestation_data)
              /\ SavesSucceeded')
             => /\ last'.result = "none"
                /\ Len(calls') = 2
                /\ last'.ret.work = last'.existing_work
                /\ ents'[last'.ret.manifestation].kind = "Manifestation"
                /\ ents'[last'.ret.copyright].kind = "Copyright"
                /\ SavedAs(1, ents[last.ret.manifestation],
                           last.copyright_holder)'
                /\ SavedAs(2, ents[last.ret.copyright],
                           last.copyright_holder)'
                /\ ents'[last'.ret.manifestation]
                      .model.data["manifestationOfWork"]
                      = ents[last'.existing_work].persist_id
      ]_vars

C6_Witness ==
    /\ Registered
    /\ ~HasWorkKey(last.manifestation_data)
    /\ UsableWork(last.existing_work)
    /\ last.work_data # NoneDict
    /\ last.result = "none"
    /\ Len(calls) = 2
    /\ last.ret.work = last.existing_work

\* C7: a registration without the 'manifestationOfWork' key and with an
\* existing_work raises TypeError when existing_work is not a Work,
\* otherwise EntityNotYetPersistedError when its persist_id is None,
\* otherwise IncompatiblePluginError when its plugin is not the
\* orchestrator's; in these cases the call makes no plugin call, stores
\* nothing and leaves manifestation_data as it was given.
C7_ExistingWorkChecks ==
    ( /\ Registered
      /\ ~HasWorkKey(last.manifestation_data)
      /\ last.existing_work # NoEnt )
    => /\ (last.result = "TypeError")
             <=> (ents[last.existing_work].kind # "Work")
       /\ (last.result = "EntityNotYetPersistedError")
             <=> /\ ents[last.existing_work].kind = "Work"
                 /\ ents[last.existing_work].persist_id = None
       /\ (last.result = "IncompatiblePluginError")
             <=> /\ ents[last.existing_work].kind = "Work"
                 /\ ents[last.existing_work].persist_id # None
                 /\ ents[last.existing_work].plugin # CoalaIpPlugin
       /\ last.result \in ExistingWorkErrors
             => /\ calls = <<>>
                /\ last.built = <<>>
                /\ Orphans = {}
                /\ last.md = last.manifestation_data

C7_Witness ==
    /\ Registered
    /\ ~HasWorkKey(last.manifestation_data)
    /\ last.existing_work # NoEnt
    /\ last.result = "IncompatiblePluginError"
    /\ ents[last.existing_work].persist_id # None
    /\ calls = <<>>

\* --------------------------------------------------- claims on derive_right
Derived == last.op = "derive_right"

SourceRightErrors ==
    {"ValueError", "TypeError", "EntityNotYetPersistedError",
     "IncompatiblePluginError"}

\* the j-th plugin call of the latest operation asked whether the current
\* owner of the source right, as get_history just reported it, is holder
AskedHolder(j, holder) ==
    /\ j > 1
    /\ calls[j].op = "is_same_user"
    /\ calls[j].to = holder
    /\ calls[j - 1].op = "get_history"
    /\ calls[j - 1].pid = last.rd["source"]
    /\ calls[j].user = calls[j - 1].ret[Len(calls[j - 1].ret)].user

\* C8: a derive_right call saves at most once, and a save it makes comes
\* after an is_same_user(source right's current owner, current_holder) call
\* that returned True; when is_same_user returns False the call raises
\* ModelDataError, that call is the last plugin call and nothing is saved.
C8_SaveOnlyForHolder ==
    Derived
    => /\ Cardinality(SaveCalls) <= 1
       /\ \A i \in SaveCalls :
             \E j \in 1 .. (i - 1) :
                /\ AskedHolder(j, last.current_holder)
                /\ calls[j].ret = PyTrue
       /\ \A j \in 1 .. Len(calls) :
             (calls[j].op = "is_same_user" /\ calls[j].ret = PyFalse)
             => /\ last.result = "ModelDataError"
                /\ SaveCalls = {}
                /\ j = Len(calls)
                /\ last.built = <<>>

C8_Witness ==
    /\ Derived
    /\ has_source(last.right_data)
    /\ last.result = "none"
    /\ Cardinality(SaveCalls) = 1
    /\ calls[Len(calls)].op = "save"
    /\ calls[Len(calls)].ret # Raised

\* C9: a derive_right call whose right_data has no 'source' key raises
\* ValueError when source_right is not given, otherwise TypeError when it is
\* no Right, otherwise EntityNotYetPersistedError when its persist_id is None,
\* otherwise IncompatiblePluginError when its plugin is not the
\* orchestrator's; in these four cases the call makes no plugin call, builds
\* nothing and leaves right_data as it was given.
C9_SourceRightChecks ==
    (Derived /\ "source" \notin DOMAIN last.right_data)
    => /\ (last.source_right = NoEnt) => (last.result = "ValueError")
       /\ ( /\ last.source_right # NoEnt
            /\ ents[last.source_right].kind \notin RightKinds )
          => (last.result = "TypeError")
       /\ ( /\ last.source_right # NoEnt
            /\ ents[last.source_right].kind \in RightKinds
            /\ ents[last.source_right].persist_id = None )
          => (last.result = "EntityNotYetPersistedError")
       /\ ( /\ last.source_right # NoEnt
            /\ ents[last.source_right].kind \in RightKinds
            /\ ents[last.source_right].persist_id # None
            /\ ents[last.source_right].plugin # CoalaIpPlugin )
          => (last.result = "IncompatiblePluginError")
       /\ check_source_right(ents, last.source_right) # "none"
          => /\ last.result \in SourceRightErrors
             /\ calls = <<>>
             /\ last.built = <<>>
             /\ Orphans = {}
             /\ last.rd = last.right_data

C9_Witness ==
    /\ Derived
    /\ "source" \notin DOMAIN last.right_data
    /\ last.source_right # NoEnt
    /\ ents[last.source_right].kind \in RightKinds
    /\ ents[last.source_right].persist_id # None
    /\ last.result = "IncompatiblePluginError"
    /\ calls = <<>>

\* source_right passes the four checks of derive_right and is held by holder
HeldSource(src, holder) ==
    /\ check_source_right(ents, src) = "none"
    /\ ents[src].persist_id \in DOMAIN ledger.hist
    /\ ledger.hist[ents[src].persist_id]
          [Len(ledger.hist[ents[src].persist_id])].user = holder

\* C10 as stated: a derive_right call whose right_data has no 'source' key,
\* with a persisted source_right of the orchestrator's plugin that
\* current_holder holds, and whose save returns an id, returns a persisted
\* entity of class right_entity_cls whose 'source' is source_right.persist_id
\* and whose persist_id is the id the one save, made for current_holder,
\* returned.
C10_DerivesFromSourceRight ==
    ( /\ Derived
      /\ "source" \notin DOMAIN last.right_data
      /\ HeldSource(last.source_right, last.current_holder)
      /\ SavesSucceeded )
    => /\ last.result = "none"
       /\ Cardinality(SaveCalls) = 1
       /\ ents[last.ret].kind = last.right_entity_cls
       /\ ents[last.ret].model.data["source"]
             = ents[last.source_right].persist_id
       /\ SavedAs(Len(calls), ents[last.ret], last.current_holder)

\* the plugin calls of the latest operation that name an id all name this one
OnlyAsksAbout(id) ==
    \A i \in 1 .. Len(calls) :
        calls[i].op \in {"load", "get_history"} => calls[i].pid = id

\* C11 as stated: whenever right_data contains the 'source' key, whatever
\* its value, source_right is not checked and right_data keeps its value.
C11_AnySourceIgnoresSourceRight ==
    (Derived /\ "source" \in DOMAIN last.right_data)
    => /\ last.result \notin SourceRightErrors
       /\ last.rd = last.right_data

\* C11, amended: when the value right_data holds under 'source' is truthy,
\* source_right is not checked (none of its four errors is raised, even when
\* it is no Right, is unpersisted or is of another plugin), the entity the
\* call loads and whose history it asks for is the one right_data names,
\* right_data keeps its value and a right the call returns holds that value
\* under 'source'; when the key is there with a falsy value the checks on
\* source_right run and, once they pass, the key is overwritten with
\* source_right.persist_id.
C11_TruthySourceIgnoresSourceRight ==
    /\ (Derived /\ has_source(last.right_data))
       => /\ last.result \notin SourceRightErrors
          /\ OnlyAsksAbout(last.right_data["source"])
          /\ last.rd = last.right_data
          /\ last.result = "none"
             => ents[last.ret].model.data["source"]
                   = last.right_data["source"]
    /\ ( /\ Derived
         /\ "source" \in DOMAIN last.right_data
         /\ ~Truthy(last.right_data["source"]) )
       => IF check_source_right(ents, last.source_right) # "none"
          THEN /\ last.result = check_source_right(ents, last.source_right)
               /\ calls = <<>>
          ELSE last.rd["source"] = ents[last.source_right].persist_id

C11_Witness ==
    /\ Derived
    /\ has_source(last.right_data)
    /\ last.source_right # NoEnt
    /\ check_source_right(ents, last.source_right) # "none"
    /\ last.result = "none"
    /\ ents[last.ret].persist_id # None
    /\ ents[last.ret].model.data["source"] = last.right_data["source"]

\* ------------------------------------------------------ claims on transfers
TransferRightErrors ==
    {"TypeError", "EntityNotYetPersistedError", "IncompatiblePluginError"}

\* the plugin calls of the latest operation that are transfer() calls
TransferCalls == {i \in 1 .. Len(calls) : calls[i].op = "transfer"}

\* C12: transfer_right raises TypeError when right is no Right, otherwise
\* EntityNotYetPersistedError when its persist_id is None, otherwise
\* IncompatiblePluginError when its plugin is not the orchestrator's, and in
\* these three cases makes no plugin call and changes nothing; in every other
\* case its outcome is the outcome of right.transfer(rights_assignment_data,
\* from_user=current_holder, to_user=to) with the same keyword arguments:
\* the same error or the same RightsAssignment, the same plugin calls and
\* the same ledger.
C12_TransferRightDelegates ==
    [][(last'.op = "transfer_right")
       => LET right == ents[last'.e]
              t == transfer(right, ledger, last'.rights_assignment_data,
                            last'.from_user, last'.to_user,
                            last'.rights_assignment_format, last'.outcome)
          IN  IF right.kind \notin RightKinds
              THEN last'.result = "TypeError"
                   /\ calls' = <<>> /\ ledger' = ledger /\ ents' = ents
              ELSE IF right.persist_id = None
              THEN last'.result = "EntityNotYetPersistedError"
                   /\ calls' = <<>> /\ ledger' = ledger /\ ents' = ents
              ELSE IF right.plugin # CoalaIpPlugin
              THEN last'.result = "IncompatiblePluginError"
                   /\ calls' = <<>> /\ ledger' = ledger /\ ents' = ents
              ELSE /\ last'.result = t.err
                   /\ last'.result \notin TransferRightErrors
                   /\ calls' = t.calls
                   /\ ledger' = t.ledger
                   /\ IF t.err = "none"
                      THEN /\ Len(ents') = Len(ents) + 1
                           /\ last'.ret = Len(ents')
                           /\ ents'[last'.ret].kind = "RightsAssignment"
                           /\ ents'[last'.ret].persist_id
                                 = t.rights_assignment.persist_id
                           /\ ents'[last'.ret].model
                                 = t.rights_assignment.model
                      ELSE ents' = ents
      ]_vars

C12_Witness ==
    /\ last.op = "transfer_right"
    /\ last.result = "none"
    /\ TransferCalls = {1}
    /\ calls[1].pid = ents[last.e].persist_id
    /\ ents[last.ret].persist_id = calls[1].ret

Transferred == last.op = "transfer"

\* C13 as stated: Right.transfer on a right whose persist_id is None raises
\* EntityNotYetPersistedError whatever rights_assignment_data and
\* rights_assignment_format are, and the plugin's transfer is not called.
C13_UnpersistedTransferRaises ==
    (Transferred /\ ents[last.e].persist_id = None)
    => /\ last.result = "EntityNotYetPersistedError"
       /\ TransferCalls = {}

\* C13, amended: Right.transfer on a Right or Copyright whose persist_id is
\* None never calls the plugin and returns no RightsAssignment, whatever
\* rights_assignment_data is; it raises EntityNotYetPersistedError when
\* rights_assignment_format is 'json' or 'jsonld', NotImplementedError when
\* it is 'ipld' and ValueError when it names no data format, because the
\* RightsAssignment is serialised before persist_id is looked at.
C13_UnpersistedTransferFails ==
    (Transferred /\ ents[last.e].persist_id = None)
    => /\ calls = <<>>
       /\ last.ret = NoEnt
       /\ Orphans = {}
       /\ last.result =
             CASE last.rights_assignment_format \in {"json", "jsonld"}
                    -> "EntityNotYetPersistedError"
               [] last.rights_assignment_format = "ipld"
                    -> "NotImplementedError"
               [] OTHER -> "ValueError"

C13_Witness ==
    /\ Transferred
    /\ ents[last.e].kind = "Right"
    /\ ents[last.e].persist_id = None
    /\ last.rights_assignment_data = D1("action", "loan")
    /\ last.rights_assignment_format = "json"
    /\ last.result = "EntityNotYetPersistedError"
    /\ calls = <<>>

\* the data of the RightsAssignment a transfer builds
AssignmentData(rights_assignment_data) ==
    IF rights_assignment_data = NoneDict THEN EmptyDict
    ELSE rights_assignment_data

\* C14: a Right.transfer that returns normally made exactly one plugin call,
\* transfer(the right's persist_id, the RightsAssignment serialised in
\* rights_assignment_format, from_user=from_user, to_user=to_user), and no
\* save; it returns a RightsAssignment whose persist_id is the id that call
\* returned and whose data is rights_assignment_data, or the empty dict when
\* none was given.
C14_TransferReturnsAssignment ==
    (Transferred /\ last.result = "none")
    => /\ ents[last.e].kind \in RightKinds
       /\ ents[last.e].persist_id # None
       /\ Len(calls) = 1
       /\ SaveCalls = {}
       /\ calls[1].op = "transfer"
       /\ calls[1].plugin = ents[last.e].plugin
       /\ calls[1].pid = ents[last.e].persist_id
       /\ calls[1].user = last.from_user
       /\ calls[1].to = last.to_user
       /\ last.rights_assignment_format \in {"json", "jsonld"}
       /\ calls[1].payload
             = to_format(ents[last.ret], last.rights_assignment_format).payload
       /\ LET type_key == IF last.rights_assignment_format = "json"
                          THEN "type" ELSE "@type"
          IN  calls[1].payload[type_key] = "RightsTransferAction"
       /\ \A k \in DOMAIN AssignmentData(last.rights_assignment_data) :
             calls[1].payload[k] = last.rights_assignment_data[k]
       /\ ents[last.ret].kind = "RightsAssignment"
       /\ ents[last.ret].persist_id = calls[1].ret
       /\ ents[last.ret].persist_id \notin {None, Raised}
       /\ ents[last.ret].model.data
             = AssignmentData(last.rights_assignment_data)

C14_Witness ==
    /\ Transferred
    /\ last.result = "none"
    /\ last.rights_assignment_data = NoneDict
    /\ last.to_user = "bob"
    /\ ents[last.ret].model.data = EmptyDict
    /\ ents[last.ret].persist_id = calls[1].ret

TransferOps == {"transfer", "transfer_right"}

\* C15: a transfer, through Right.transfer or transfer_right, successful or
\* failed, leaves every entity the caller holds as it was, the transferred
\* right with its persist_id and its data included, and leaves what the
\* ledger stores as it was; a transfer that returns normally adds exactly one
\* entity, the returned RightsAssignment, and a transfer that raises adds
\* none.  As this holds of every step, it holds of any number of transfers.
C15_TransferLeavesRight ==
    [][(last'.op \in TransferOps)
       => /\ \A e \in Entities : ents'[e] = ents[e]
          /\ ledger'.store = ledger.store
          /\ IF last'.result = "none"
             THEN /\ Len(ents') = Len(ents) + 1
                  /\ last'.ret = Len(ents')
                  /\ ents'[last'.ret].kind = "RightsAssignment"
             ELSE /\ ents' = ents
                  /\ last'.ret = NoEnt
      ]_vars

\* the right was transferred twice, the second time by the latest operation
C15_Witness ==
    /\ Transferred
    /\ last.result = "none"
    /\ ents[last.e].saves = 1
    /\ ents[last.e].persist_id = calls[1].pid
    /\ Len(ledger.hist[ents[last.e].persist_id]) = 3
    /\ ledger.store[ents[last.e].persist_id] = to_jsonld(ents[last.e])
    /\ Cardinality(Assignments) = 2

IsAssignment(x) == x.kind = "RightsAssignment"

\* C16 as stated, its last part: a RightsAssignment that holds a persist_id
\* was returned by a transfer.
C16_OnlyTransferGivesId ==
    \A e \in Entities :
        (IsAssignment(ents[e]) /\ ents[e].persist_id # None)
        => ents[e].origin = "callee"

\* C16, amended: create() on a RightsAssignment, whatever its arguments and
\* whether the RightsAssignment is unpersisted, was returned by a transfer or
\* was built by from_persist_id, raises PersistenceError, makes no plugin
\* call and changes neither the entity nor the ledger; no save() ever
\* stores a RightsAssignment.  A RightsAssignment gets a persist_id from
\* Right.transfer, and also from from_persist_id or from an assignment to the
\* attribute while it is None, and from nothing else.
C16_AssignmentCreateRaises ==
    [][/\ \A e \in Entities :
            IsAssignment(ents[e])
            => /\ (last'.op = "create" /\ last'.e = e)
                  => /\ last'.result = "PersistenceError"
                     /\ calls' = <<>>
                     /\ ledger' = ledger
                     /\ ents' = ents
               /\ ents'[e].persist_id # ents[e].persist_id
                  => /\ last'.op = "set_persist_id" /\ last'.e = e
                     /\ ents[e].persist_id = None
       /\ \A e \in (1 .. Len(ents')) \ Entities :
            (IsAssignment(ents'[e]) /\ ents'[e].persist_id # None)
            => \/ /\ last'.op \in TransferOps
                  /\ last'.result = "none"
                  /\ ents'[e].origin = "callee"
                  /\ ents'[e].persist_id = calls'[1].ret
               \/ last'.op = "from_persist_id"
       /\ \A i \in 1 .. Len(calls') :
            calls'[i].op = "save"
            => calls'[i].payload["@type"] # "RightsTransferAction"
      ]_vars

\* create() was just refused on a RightsAssignment a transfer returned
C16_Witness ==
    /\ last.op = "create"
    /\ IsAssignment(ents[last.e])
    /\ ents[last.e].origin = "callee"
    /\ ents[last.e].persist_id # None
    /\ last.result = "PersistenceError"
    /\ calls = <<>>

\* ------------------------------------------------- claims on the queries
Queries == {"status", "history", "current_owner"}

\* the plugin operation behind each query
QueryCall(op) == IF op = "status" THEN "get_status" ELSE "get_history"

\* C17: a status, history or current_owner query on an entity whose
\* persist_id is None makes no plugin call and returns None, the empty list
\* and None; on an entity with a persist_id, a status or history query makes
\* exactly one plugin call, get_status or get_history with that persist_id
\* on the entity's plugin, and returns what the call returned or raises when
\* it raised (current_owner makes the one get_history call as well).
C17_QueriesOfUnpersisted ==
    (last.op \in Queries)
    => IF ents[last.e].persist_id = None
       THEN /\ calls = <<>>
            /\ last.result = "none"
            /\ IF last.op = "history" THEN last.ret = <<>>
               ELSE last.ret = None
       ELSE /\ Len(calls) = 1
            /\ calls[1].op = QueryCall(last.op)
            /\ calls[1].plugin = ents[last.e].plugin
            /\ calls[1].pid = ents[last.e].persist_id
            /\ IF calls[1].ret = Raised
               THEN last.result = "EntityNotFoundError"
               ELSE /\ last.result = "none"
                    /\ last.op \in {"status", "history"}
                       => last.ret = calls[1].ret

C17_Witness ==
    /\ last.op = "status"
    /\ ents[last.e].persist_id = None
    /\ ents[last.e].saves = 1
    /\ last.ret = None
    /\ calls = <<>>

\* C18: current_owner of an entity with a persist_id makes one get_history
\* call for that persist_id and, when the call returns, returns the 'user'
\* of the last event of the history it returned, which is the ledger's
\* history of the entity, or None when that history is empty; after a
\* transfer it is therefore the user the right was transferred to and not
\* the user who created it.
C18_CurrentOwnerIsLatest ==
    (last.op = "current_owner" /\ ents[last.e].persist_id # None)
    => /\ Len(calls) = 1
       /\ calls[1].op = "get_history"
       /\ calls[1].pid = ents[last.e].persist_id
       /\ last.result = "none"
          => /\ calls[1].ret = ledger.hist[ents[last.e].persist_id]
             /\ IF Len(calls[1].ret) = 0 THEN last.ret = None
                ELSE /\ last.ret = calls[1].ret[Len(calls[1].ret)].user
                     /\ last.ret \in Users

C18_Witness ==
    /\ last.op = "current_owner"
    /\ ents[last.e].persist_id # None
    /\ last.result = "none"
    /\ Len(calls[1].ret) = 2
    /\ calls[1].ret[1].user = "alice"
    /\ calls[1].ret[2].user = "bob"
    /\ last.ret = "bob"

\* ------------------------------------------------ claims on lazy loading
LoadOps == {"load", "data"}

\* the plugin calls of the latest operation that are load() calls
LoadCalls == {i \in 1 .. Len(calls) : calls[i].op = "load"}

\* C19: for an entity built by from_persist_id, a load() or a data access
\* while nothing is loaded makes exactly one plugin call, load(persist_id),
\* and, when the load succeeds (the plugin returns data of the entity's type
\* and context that the entity's validator accepts), leaves the model loaded
\* with that data; from then on the model never changes, every load() is a
\* no-op without a plugin call and every data access returns the data of
\* that first load, so the plugin's load is called once in total.  A load
\* that raises (EntityNotFoundError, ModelDataError) loads nothing and
\* leaves the entity as it was.
C19_LoadsOnce ==
    [][\A e \in Entities :
          ents[e].model.lazy
          => /\ ( /\ ~ents[e].model.loaded
                  /\ ents[e].persist_id # None
                  /\ last'.op \in LoadOps
                  /\ last'.e = e )
                => /\ Len(calls') = 1
                   /\ calls'[1].op = "load"
                   /\ calls'[1].plugin = ents[e].plugin
                   /\ calls'[1].pid = ents[e].persist_id
                   /\ IF last'.result = "none"
                      THEN /\ ents'[e].model.loaded
                           /\ ents'[e].model.data
                                 = extract_ld_data(calls'[1].ret).data
                           /\ Validates(ents[e].kind, ents'[e].model.data)
                           /\ last'.op = "data"
                              => last'.ret = ents'[e].model.data
                      ELSE /\ ents'[e] = ents[e]
                           /\ last'.result \in {"EntityNotFoundError",
                                                "ModelDataError"}
             /\ ents[e].model.loaded
                => /\ ents'[e].model = ents[e].model
                   /\ (last'.op \in LoadOps /\ last'.e = e)
                      => /\ calls' = <<>>
                         /\ last'.result = "none"
                         /\ last'.op = "data"
                            => last'.ret = ents[e].model.data
      ]_vars

\* a load() that found the data of an earlier load and asked nothing
C19_Witness ==
    /\ last.op = "load"
    /\ last.result = "none"
    /\ calls = <<>>
    /\ ents[last.e].model.lazy
    /\ ents[last.e].model.loaded
    /\ ents[last.e].model.data = D1("rightsOf", "extm")

\* C20: from_persist_id(persist_id) without force_load makes no plugin call
\* and returns an entity of the class, on the given plugin, whose persist_id
\* is the given id and whose lazy model has loaded nothing: reading the
\* model's data raises ModelNotYetLoadedError.  With force_load it makes
\* exactly one plugin call, load(persist_id), before it returns; it returns
\* the entity loaded, or raises what the load raised.
C20_FromPersistIdIsLazy ==
    (last.op = "from_persist_id" /\ last.persist_id # None)
    => IF ~last.force_load
       THEN /\ calls = <<>>
            /\ last.result = "none"
            /\ last.e = Len(ents)
            /\ ents[last.e].kind = last.kind
            /\ ents[last.e].plugin = last.plugin
            /\ ents[last.e].persist_id = last.persist_id
            /\ ents[last.e].model.lazy
            /\ model_data(ents[last.e].model).err = "ModelNotYetLoadedError"
       ELSE /\ Len(calls) = 1
            /\ calls[1].op = "load"
            /\ calls[1].plugin = last.plugin
            /\ calls[1].pid = last.persist_id
            /\ IF last.result = "none"
               THEN /\ last.e = Len(ents)
                    /\ ents[last.e].kind = last.kind
                    /\ ents[last.e].persist_id = last.persist_id
                    /\ model_data(ents[last.e].model).err = "none"
               ELSE last.e = NoEnt

C20_Witness ==
    /\ last.op = "from_persist_id"
    /\ last.persist_id = "ext1"
    /\ ~last.force_load
    /\ calls = <<>>
    /\ ents[last.e].persist_id = "ext1"
    /\ ~ents[last.e].model.loaded

\* C21 as stated: load() on an entity whose persist_id is None raises
\* EntityNotYetPersistedError without calling the plugin's load, whether its
\* model is lazy or plain.
C21_UnpersistedLoadRaises ==
    (last.op = "load" /\ ents[last.e].persist_id = None)
    => /\ last.result = "EntityNotYetPersistedError"
       /\ calls = <<>>

\* the type or the context a backend record carries is not the one the
\* lazy model of this kind was constructed with
Disagrees(x, kind) ==
    \/ x.ld_type # None /\ x.ld_type # DefaultType(kind)
    \/ x.ld_context # None /\ x.ld_context # DefaultContext(kind)

\* C22: when the backend record of a lazy model carries a type or a context
\* other than the one the model was constructed with, loading it raises
\* ModelDataError and the model stays unloaded, its data unreadable; a lazy
\* model that has loaded keeps the type and the context it was constructed
\* with, and holds the data and the identifier extracted from the record.
C22_LoadKeepsConstructedTypeAndContext ==
    \A e \in Entities :
        LET m == ents[e].model
            x == extract_ld_data(ledger.store[ents[e].persist_id])
        IN  (m.lazy /\ ents[e].persist_id \in DOMAIN ledger.store)
            => /\ Disagrees(x, ents[e].kind)
                  => /\ ~m.loaded
                     /\ model_data(m).err = "ModelNotYetLoadedError"
                     /\ (last.op \in {"load", "data"} /\ last.e = e)
                        => last.result = "ModelDataError"
               /\ (last.op = "from_persist_id" /\ last.force_load
                   /\ Disagrees(extract_ld_data(ledger.store[last.persist_id]),
                                last.kind))
                  => last.result = "ModelDataError"
               /\ m.loaded
                  => /\ m.ld_type = DefaultType(ents[e].kind)
                     /\ m.ld_context = DefaultContext(ents[e].kind)
                     /\ m.data = x.data
                     /\ x.ld_id # None => m.ld_id = x.ld_id

C22_Witness ==
    /\ last.op = "load"
    /\ ents[last.e].model.lazy
    /\ ~ents[last.e].model.loaded
    /\ last.result = "ModelDataError"
    /\ Len(calls) = 1
    /\ calls[1].op = "load"
    /\ LET x == extract_ld_data(ledger.store[ents[last.e].persist_id])
       IN  /\ x.ld_type = DefaultType(ents[last.e].kind)
           /\ x.ld_context # None
           /\ x.ld_context # DefaultContext(ents[last.e].kind)

\* the entities Entity.create can persist: not yet persisted, and not a
\* RightsAssignment, whose create() always raises
Creatable(e) ==
    /\ ents[e].kind # "RightsAssignment"
    /\ ents[e].persist_id = None

\* C23: create() of an entity that is not yet persisted raises ValueError
\* when the format selector is none of json, jsonld and ipld, and
\* NotImplementedError when it is ipld; in both cases the plugin's save is
\* not called, the entity and its absent persist_id are left as they were,
\* and a create() with jsonld whose save works then succeeds and gives the
\* entity its id.
C23_BadFormatCreateFails ==
    [][\A e \in Entities :
          ( /\ Creatable(e)
            /\ last'.op = "create"
            /\ last'.e = e
            /\ last'.data_format \in FormatInputs \ {"json", "jsonld"} )
          => /\ last'.result = IF last'.data_format = "ipld"
                               THEN "NotImplementedError" ELSE "ValueError"
             /\ calls' = <<>>
             /\ ledger' = ledger
             /\ ents' = ents
             /\ ents'[e].persist_id = None
             /\ LET r == create(ents'[e], ledger', "alice", "jsonld", "ok")
                IN  /\ r.err = "none"
                    /\ r.entity.persist_id = r.ret
                    /\ r.ret # None
      ]_vars

C23_Witness ==
    /\ last.op = "create"
    /\ last.data_format = "yaml"
    /\ last.result = "ValueError"
    /\ Creatable(last.e)
    /\ calls = <<>>
    /\ create(ents[last.e], ledger, "alice", "json", "ok").err = "none"

\* the plugin raised in one of the calls the latest operation made
SaveRaised(cs) ==
    \E i \in 1 .. Len(cs) : cs[i].op = "save" /\ cs[i].ret = Raised

\* C24: when the plugin's save raises during create(), create() raises the
\* plugin's EntityCreationError, has called save once and only once, and
\* leaves the ledger and the entity's absent persist_id as they were; a
\* later create() of the entity calls save again: it succeeds when that save
\* works and raises the save's error, never EntityPreviouslyCreatedError,
\* when it does not.
C24_FailedSaveSurfaces ==
    [][\A e \in Entities :
          ( /\ Creatable(e)
            /\ last'.op = "create"
            /\ last'.e = e
            /\ SaveRaised(calls') )
          => /\ last'.result = "EntityCreationError"
             /\ Len(calls') = 1
             /\ ledger' = ledger
             /\ ents'[e].persist_id = None
             /\ \A o \in {"ok", "raise"} :
                   LET r == create(ents'[e], ledger', "alice", "jsonld", o)
                   IN  /\ Len(r.calls) = 1
                       /\ r.calls[1].op = "save"
                       /\ r.err = IF o = "ok" THEN "none"
                                  ELSE "EntityCreationError"
      ]_vars

C24_Witness ==
    /\ last.op = "create"
    /\ last.result = "EntityCreationError"
    /\ SaveRaised(calls)
    /\ ents[last.e].saves = 2
    /\ ents[last.e].persist_id = None

\* the keys from_data reads as linked-data metadata in each data format
MetaKeys(data_format) ==
    IF data_format = "jsonld" THEN {"@type", "@context", "@id"} ELSE {"type"}

AllMetaKeys == {"type", "@type", "@context", "@id"}

Without(d, ks) == [x \in (DOMAIN d) \ ks |-> d[x]]

\* C25 as stated: for every entity built by from_data from raw data in the
\* json or the jsonld format, extracting the metadata from to_jsonld()
\* gives the raw data without its metadata keys (those of its format, or
\* those of both formats), and extracting from that again gives the same.
C25_RoundTripOfAnyRaw ==
    (last.op = "round_trip" /\ last.result = "none")
    => /\ \/ last.plain = Without(last.raw, MetaKeys(last.data_format))
          \/ last.plain = Without(last.raw, AllMetaKeys)
       /\ last.again = last.plain

\* C25, amended: extracting the metadata from to_jsonld() gives the raw data
\* without its metadata keys, and extracting again gives the same, when the
\* raw data carries no key the other format reads as metadata and the
\* entity's type, context and identifier are not all empty.  Whenever they
\* are not all empty the first extraction gives the raw data without the
\* metadata keys of its format and without '@type', '@context' and '@id'
\* (which to_jsonld() overwrites), and the second removes a 'type' key that
\* raw data in the jsonld format carried.  When they are all empty the
\* serialisation is taken for the json format and the three keys stay.
C25_RoundTripOfPlainRaw ==
    (last.op = "round_trip" /\ last.result = "none")
    => LET f == last.data_format
           typed == \E k \in MetaKeys("jsonld") : Truthy(last.jsonld[k])
           clean == (DOMAIN last.raw) \cap (AllMetaKeys \ MetaKeys(f)) = {}
       IN  /\ (typed /\ clean)
              => /\ last.plain = Without(last.raw, MetaKeys(f))
                 /\ last.again = last.plain
           /\ typed
              => /\ last.plain
                      = Without(last.raw, MetaKeys(f) \cup MetaKeys("jsonld"))
                 /\ last.again = Without(last.plain, {"type"})
           /\ ~typed
              => /\ last.plain = Without(last.jsonld, {"type"})
                 /\ last.again = last.plain

C25_Witness ==
    /\ last.op = "round_trip"
    /\ last.result = "none"
    /\ last.kind = "Right"
    /\ last.data_format = "jsonld"
    /\ DOMAIN last.raw = {"allowedBy", "@type", "@context", "@id"}
    /\ last.raw["@id"] = "id1"
    /\ last.jsonld = last.raw
    /\ last.plain = D1("allowedBy", "ext1")
    /\ last.again = last.plain

Plus(p, d, meta) ==
    /\ DOMAIN p = (DOMAIN d) \cup (DOMAIN meta)
    /\ \A k \in DOMAIN meta : p[k] = meta[k]
    /\ \A k \in (DOMAIN d) \ (DOMAIN meta) : p[k] = d[k]

JsonOf(p, entity) ==
    Plus(p, entity.model.data, D1("type", entity.model.ld_type))

JsonldOf(p, entity) ==
    Plus(p, entity.model.data,
         Put(D2("@context", entity.model.ld_context,
                "@type", entity.model.ld_type),
             "@id", entity.model.ld_id))

\* C27: for every entity with resident data to_json() is the data plus
\* 'type', the entity's type, and to_jsonld() is the data plus '@context',
\* '@type' and '@id'; the '@id' of an entity from_data built is the '@id'
\* of its jsonld data, or '' when the data names none (or is json data); and
\* the payload create() hands to save is to_json() when json is asked for
\* and to_jsonld() when jsonld is asked for or no format is named.
C27_SerialisationsAreDataPlusKeys ==
    [][/\ \A e \in 1 .. Len(ents') :
             ents'[e].model.loaded
             => /\ JsonOf(to_json(ents'[e]), ents'[e])
                /\ JsonldOf(to_jsonld(ents'[e]), ents'[e])
       /\ (last'.op = "from_data" /\ last'.result = "none")
          => to_jsonld(ents'[last'.e])["@id"]
                = IF last'.data_format = "jsonld"
                     /\ "@id" \in DOMAIN last'.data
                  THEN last'.data["@id"] ELSE ""
       /\ (last'.op = "create" /\ calls' # <<>>)
          => /\ Len(calls') = 1
             /\ calls'[1].op = "save"
             /\ IF last'.data_format = "json"
                THEN JsonOf(calls'[1].payload, ents[last'.e])
                ELSE JsonldOf(calls'[1].payload, ents[last'.e])
      ]_vars

C27_Witness ==
    /\ last.op = "create"
    /\ last.data_format = Omitted
    /\ last.result = "none"
    /\ Len(calls) = 1
    /\ calls[1].op = "save"
    /\ calls[1].payload = to_jsonld(ents[last.e])
    /\ calls[1].payload["@id"] = "id1"
    /\ to_json(ents[last.e]) = D2("allowedBy", "ext1", "type", "X")
    /\ to_jsonld(ents[last.e])["@context"] = DEFAULT_LD_CONTEXT

\* the latest operation was a from_data of this kind
Built(kind) == last.op = "from_data" /\ last.kind = kind

\* the data holds a string under the key; a non-empty one
HasStr(d, k) == k \in DOMAIN d /\ IsStr(d[k])
HasText(d, k) == HasStr(d, k) /\ d[k] # ""

C29_ManifestationNeedsWorkString ==
    Built("Manifestation")
    => /\ last.result = "none"
          <=> /\ HasStr(last.data, "name")
              /\ HasStr(last.data, "manifestationOfWork")
       /\ last.result \in {"none", "ModelDataError"}

\* C29, amended: Manifestation.from_data(d) succeeds exactly when d has a
\* string 'name', a string 'manifestationOfWork', and no 'isManifestation'
\* key or True under it; it raises ModelDataError otherwise.
C29_ManifestationNeedsWorkStringAndFlag ==
    Built("Manifestation")
    => /\ last.result = "none"
          <=> /\ HasStr(last.data, "name")
              /\ HasStr(last.data, "manifestationOfWork")
              /\ "isManifestation" \in DOMAIN last.data
                 => last.data["isManifestation"] = PyTrue
       /\ last.result \in {"none", "ModelDataError"}

C29_Witness ==
    /\ Built("Manifestation")
    /\ last.result = "ModelDataError"
    /\ HasStr(last.data, "name")
    /\ HasStr(last.data, "manifestationOfWork")
    /\ last.data["isManifestation"] = PyFalse

\* C30 as stated: Right.from_data(d) succeeds exactly when one and only one
\* of the keys 'rightsOf' and 'allowedBy' is in d and holds a non-empty
\* string, and raises ModelDataError otherwise: with both keys, with
\* neither, and with a non-string or an empty string under the only one.
C30_RightNeedsExactlyOneKey ==
    Built("Right")
    => /\ last.result = "none"
          <=> \E k \in {"rightsOf", "allowedBy"} :
                 /\ HasText(last.data, k)
                 /\ {"rightsOf", "allowedBy"} \cap DOMAIN last.data = {k}
       /\ last.result \in {"none", "ModelDataError"}

\* C31 as stated, the derived-from key being 'source': Copyright.from_data(d)
\* succeeds exactly when d holds a non-empty string under 'rightsOf' and has
\* no 'source' key, and raises ModelDataError otherwise.  Stated for data
\* without the key 'allowedBy'.
C31_CopyrightRejectsDerived ==
    (Built("Copyright") /\ "allowedBy" \notin DOMAIN last.data)
    => /\ last.result = "none"
          <=> /\ HasText(last.data, "rightsOf")
              /\ "source" \notin DOMAIN last.data
       /\ last.result \in {"none", "ModelDataError"}

\* the latest operation was a from_data on valid data that names the type
\* "X" in the way of its format
BuiltTyped(kind) ==
    /\ Built(kind)
    /\ <<kind, last.data, last.data_format>> \in TypedInputs

LoadsAs(kind, record) ==
    LET x == extract_ld_data(record)
    IN  ~Disagrees(x, kind) /\ Validates(kind, x.data)

\* the latest derive_right loaded its source as the claim says: once from
\* the ledger, a second time exactly when the record did not load as a
\* Copyright; when it loads as neither kind the call raises ModelDataError
\* having made only the two loads; the owner asked about is the loaded one's
SourceLoaded(store) ==
    LET source == last'.right_data["source"]
        cs == calls'
        loads == {i \in 1 .. Len(cs) : cs[i].op = "load"}
    IN  /\ Len(cs) >= 1
        /\ cs[1].op = "load"
        /\ \A i \in loads : cs[i].pid = source /\ i <= 2
        /\ (2 \in loads) <=> /\ source \in DOMAIN store
                              /\ ~LoadsAs("Copyright", store[source])
        /\ source \notin DOMAIN store
           => last'.result = "EntityNotFoundError" /\ Len(cs) = 1
        /\ ( /\ source \in DOMAIN store
             /\ ~LoadsAs("Copyright", store[source])
             /\ ~LoadsAs("Right", store[source]) )
           => /\ last'.result = "ModelDataError"
              /\ Len(cs) = 2
              /\ \A i \in 1 .. Len(cs) :
                    cs[i].op \notin {"is_same_user", "save"}
        /\ \A j \in 1 .. Len(cs) :
              cs[j].op = "is_same_user"
              => /\ j > 1
                 /\ cs[j - 1].op = "get_history"
                 /\ cs[j - 1].pid = source
                 /\ cs[j].user = LET h == ledger.hist[source] IN h[Len(h)].user
                 /\ cs[j].to = last'.current_holder

\* C34 as stated, for every right_data that has a 'source' key: the source
\* is loaded first as a Copyright and, only if that load raises
\* ModelDataError, again as a Right; when both raise ModelDataError the call
\* raises ModelDataError without an is_same_user or a save; the ownership
\* check is made against the current owner of the loaded source.
C34_SourceKeyLoadsSource ==
    [][(last'.op = "derive_right" /\ "source" \in DOMAIN last'.right_data)
       => SourceLoaded(ledger.store)]_vars

\* C34: the same, for every right_data whose 'source' value is truthy.
C34_TruthySourceLoadsSource ==
    [][(last'.op = "derive_right" /\ has_source(last'.right_data))
       => SourceLoaded(ledger.store)]_vars

\* a derive_right whose source loaded as a Right after it failed to load as a
\* Copyright, and one whose source loaded as neither
C34_Witness ==
    /\ Derived
    /\ has_source(last.right_data)
    /\ Cardinality(LoadCalls) = 2
    /\ last.result = "none"
    /\ \E j \in 1 .. Len(calls) : calls[j].op = "is_same_user"

\* the plugin call raised, given the ledger the operation started from
BackendRaised(c, L) ==
    CASE c.op \in {"save", "transfer"} -> c.ret = Raised
      [] c.op = "load" -> c.pid \notin DOMAIN L.store
      [] c.op \in {"get_history", "get_status"} -> c.pid \notin DOMAIN L.hist
      [] OTHER -> FALSE

\* the errors a plugin call of this kind raises
BackendErrors(c) ==
    CASE c.op = "save" -> {"EntityCreationError"}
      [] c.op = "transfer" -> {"EntityTransferError", "EntityNotFoundError"}
      [] OTHER -> {"EntityNotFoundError"}

Orchestrated ==
    last'.op \in {"register_manifestation", "derive_right", "transfer_right"}

\* a plugin call that raised is the last thing the operation did, and the
\* operation raises the plugin's error
BackendErrorsSurface ==
    \A i \in 1 .. Len(calls') :
        BackendRaised(calls'[i], ledger)
        => i = Len(calls') /\ last'.result \in BackendErrors(calls'[i])

\* a Work or a Manifestation that fails its validation ends the registration
RegisterValidationSurfaces ==
    last'.op = "register_manifestation"
    => /\ ( /\ ~Truthy(Get(last'.manifestation_data, "manifestationOfWork"))
            /\ last'.existing_work = NoEnt
            /\ ~ValidWorkData(last'.manifestation_data, last'.work_data) )
          => last'.result = "ModelDataError" /\ calls' = <<>>
       /\ ~ValidManifestationData(last'.manifestation_data)
          => last'.result # "none" /\ Len(calls') <= 1

\* right data that fails the validation of the right's kind ends the
\* derivation before anything is saved
DeriveValidationSurfaces ==
    (last'.op = "derive_right" /\ ~Validates(last'.right_entity_cls, last'.rd))
    => /\ last'.result # "none"
       /\ \A i \in 1 .. Len(calls') : calls'[i].op # "save"

\* the source named by right_data, when the ledger holds it and it fails the
\* checks of each of these kinds
SourceFailsAs(kinds) ==
    /\ last'.op = "derive_right"
    /\ has_source(last'.right_data)
    /\ last'.right_data["source"] \in DOMAIN ledger.store
    /\ \A k \in kinds : ~LoadsAs(k, ledger.store[last'.right_data["source"]])

\* C35 as stated: whenever a plugin call or a validation made during
\* register_manifestation, derive_right or transfer_right raises, the
\* operation raises, having done nothing after the failure; in particular a
\* source that fails the checks of its load as a Copyright ends derive_right
\* after that one load.
C35_EveryErrorEndsTheOperation ==
    [][Orchestrated
       => /\ BackendErrorsSurface
          /\ RegisterValidationSurfaces
          /\ DeriveValidationSurfaces
          /\ SourceFailsAs({"Copyright"})
             => last'.result = "ModelDataError" /\ Len(calls') = 1]_vars

\* C35: the same, but for the ModelDataError of loading the source of
\* derive_right as a Copyright, which is caught: the source is loaded again
\* as a Right, and only when that load raises ModelDataError too does the
\* operation raise it, after the two loads.
C35_ErrorsEndTheOperationButSourceFallback ==
    [][Orchestrated
       => /\ BackendErrorsSurface
          /\ RegisterValidationSurfaces
          /\ DeriveValidationSurfaces
          /\ SourceFailsAs({"Copyright"})
             => /\ Len(calls') >= 2
                /\ calls'[2].op = "load"
                /\ calls'[2].pid = calls'[1].pid
          /\ SourceFailsAs({"Copyright", "Right"})
             => last'.result = "ModelDataError" /\ Len(calls') = 2]_vars

\* a save, a load and a transfer that raised, each the last call of an
\* operation that raised
C35_Witness ==
    /\ last.op = "transfer_right"
    /\ last.result = "EntityTransferError"
    /\ calls # <<>>
    /\ calls[Len(calls)].op = "transfer"
    /\ calls[Len(calls)].ret = Raised

\* the latest step assigned to this attribute of an entity
Assigned(l, name) == l.op = "setattr" /\ l.name = name

\* what holds of every assignment: model and plugin reject it; persist_id
\* rejects it once it is not None and keeps its value, and takes the value
\* while it is None; and no step of any operation changes a persist_id that
\* is not None
AssignmentsFreeze ==
    /\ (last'.op = "setattr" /\ last'.name \in {"model", "plugin"})
       => /\ last'.result = "FrozenInstanceError"
          /\ ents' = ents
    /\ (Assigned(last', "persist_id") /\ ents[last'.e].persist_id # None)
       => /\ last'.result = "FrozenInstanceError"
          /\ ents' = ents
    /\ (Assigned(last', "persist_id") /\ ents[last'.e].persist_id = None)
       => /\ last'.result = "none"
          /\ ents'[last'.e].persist_id = last'.value
    /\ \A e \in Entities :
          ents[e].persist_id # None
          => ents'[e].persist_id = ents[e].persist_id

\* C36 as stated: an attribute that is not None rejects every assignment
\* with FrozenInstanceError and keeps its value; model and plugin are frozen
\* from initialisation; persist_id, initialised to None, accepts one
\* assignment, whatever the value, and rejects the one after it.
C36_AssignedExactlyOnce ==
    [][/\ AssignmentsFreeze
       /\ ( /\ Assigned(last, "persist_id") /\ last.result = "none"
            /\ Assigned(last', "persist_id") /\ last'.e = last.e )
          => last'.result = "FrozenInstanceError"]_vars

\* C36: the same, where the assignment that freezes persist_id is the first
\* that gives it a value other than None; after an assignment of None the
\* attribute still accepts an assignment.
C36_FrozenOnceNotNone ==
    [][/\ AssignmentsFreeze
       /\ ( /\ Assigned(last, "persist_id") /\ last.result = "none"
            /\ Assigned(last', "persist_id") /\ last'.e = last.e )
          => (last'.result = "FrozenInstanceError") <=> (last.value # None)
      ]_vars

\* persist_id was assigned while None and has just rejected a second value
C36_Witness ==
    /\ Assigned(last, "persist_id")
    /\ last.result = "FrozenInstanceError"
    /\ last.value = "ext7"
    /\ ents[last.e].persist_id = "ext1"
    /\ ents[last.e].saves = 0

Extracted == last.op = "extract" /\ last.result = "none"

NoSelector == ~Truthy(last.data_format)

LdKeys == {"@type", "@context", "@id"}

\* the keys the extraction of this format takes out of the data
MetaKeysOf(format) == IF format = "jsonld" THEN LdKeys ELSE {"type"}

\* under the inferred format every linked-data key of the record was
\* returned as metadata and is gone from the plain data
LdKeysExtracted ==
    /\ LdKeys \cap DOMAIN last.ret.data = {}
    /\ last.ret.ld_type = Get(last.given, "@type")
    /\ last.ret.ld_context = Get(last.given, "@context")
    /\ last.ret.ld_id = Get(last.given, "@id")

\* C37 as stated: without a selector the format inferred is jsonld if and
\* only if one of the keys '@type', '@context', '@id' is present in the
\* record, json otherwise, and every linked-data key present is returned as
\* metadata and removed from the plain data.
C37_InfersJsonldIffKeyPresent ==
    (last.op = "extract" /\ NoSelector)
    => /\ last.result = "none"
       /\ (last.format = "jsonld") <=> (LdKeys \cap DOMAIN last.given # {})
       /\ last.format \in {"jsonld", "json"}
       /\ LdKeysExtracted

\* C37: without a selector the format inferred is jsonld if and only if one
\* of '@type', '@context', '@id' has a truthy value in the record, json
\* otherwise; under jsonld every linked-data key present is returned as
\* metadata and removed from the plain data; under json the 'type' key is,
\* and linked-data keys with falsy values stay in the plain data.
C37_InfersJsonldIffKeyTruthy ==
    (last.op = "extract" /\ NoSelector)
    => /\ last.result = "none"
       /\ (last.format = "jsonld")
             <=> (\E k \in LdKeys : Truthy(Get(last.given, k)))
       /\ last.format \in {"jsonld", "json"}
       /\ last.format = "jsonld" => LdKeysExtracted
       /\ last.format = "json"
          => /\ last.ret.ld_type = Get(last.given, "type")
             /\ last.ret.ld_context = None
             /\ last.ret.ld_id = None
             /\ last.ret.data
                   = [k \in DOMAIN last.given \ {"type"} |-> last.given[k]]

\* a record with '@id' alone among the linked-data keys was taken for jsonld
C37_Witness ==
    /\ Extracted
    /\ NoSelector
    /\ LdKeys \cap DOMAIN last.given = {"@id"}
    /\ last.format = "jsonld"
    /\ last.ret.ld_id = "id1"
    /\ "@id" \notin DOMAIN last.ret.data

\* C38: an extraction in the json or the jsonld format leaves the caller's
\* record as it was, also when the caller writes into the plain data
\* returned; the plain data is the record without the metadata keys of the
\* format; metadata the record does not have is returned as None; an
\* extraction in the ipld format raises NotImplementedError.
C38_ExtractionLeavesInputAlone ==
    /\ last.op \in {"extract", "mutate_extracted"} => last.data = last.given
    /\ Extracted
       => /\ last.format \in {"jsonld", "json"}
          /\ last.ret.data
                = [k \in DOMAIN last.given \ MetaKeysOf(last.format)
                      |-> last.given[k]]
          /\ \A k \in {"@type", "type"} \cap MetaKeysOf(last.format) :
                last.ret.ld_type = Get(last.given, k)
          /\ last.ret.ld_context
                = IF last.format = "jsonld" THEN Get(last.given, "@context")
                  ELSE None
          /\ last.ret.ld_id
                = IF last.format = "jsonld" THEN Get(last.given, "@id")
                  ELSE None
    /\ (last.op = "extract" /\ last.data_format = "ipld")
       => last.result = "NotImplementedError"
    /\ (last.op = "extract" /\ last.result = "NotImplementedError")
       => last.format = "ipld"

\* the caller wrote into the plain data of a jsonld extraction that took a
\* type out and found no identifier
C38_Witness ==
    /\ last.op = "mutate_extracted"
    /\ last.format = "jsonld"
    /\ "new_data" \in DOMAIN last.ret.data
    /\ "@type" \in DOMAIN last.given
    /\ "@type" \notin DOMAIN last.ret.data
    /\ "@id" \notin DOMAIN last.given
    /\ last.ret.ld_id = None

\* the step stores the id of a create() whose __setattr__ read persist_id
\* and was then overtaken by the store of another call
StaleStore ==
    /\ last'.op = "create_step"
    /\ last'.step = "store"
    /\ frames[last'.t].current_value = None
    /\ ents[last'.e].persist_id # None

\* C39 as stated: however two create() calls on one entity are interleaved,
\* no step changes a persist_id that is not None.
C39_PersistIdNeverOverwritten ==
    [][\A e \in Entities :
          ents[e].persist_id # None
          => ents'[e].persist_id = ents[e].persist_id]_vars

\* C39: a persist_id that is not None is changed by one step only, the store
\* of a create() whose __setattr__ read persist_id as None before another
\* call stored its id (both calls are then past both checks, that of create()
\* and that of __setattr__); a store whose __setattr__ read the value the
\* attribute still has raises FrozenInstanceError when that value is not
\* None and leaves it alone.
C39_OverwrittenOnlyByStaleStore ==
    [][/\ \A e \in Entities :
             ( /\ ents[e].persist_id # None
               /\ ents'[e].persist_id # ents[e].persist_id )
             => StaleStore /\ last'.e = e
       /\ ( /\ last'.op = "create_step"
            /\ last'.step = "store"
            /\ frames[last'.t].current_value = ents[last'.e].persist_id
            /\ ents[last'.e].persist_id # None )
          => /\ last'.result = "FrozenInstanceError"
             /\ ents' = ents
      ]_vars

\* both calls passed the persist_id test of create() and saved; the first stored its
\* id and the second, which read persist_id after that, was refused
C39_Witness ==
    /\ last.op = "create_step"
    /\ last.step = "store"
    /\ last.result = "FrozenInstanceError"
    /\ \A t \in Threads : frames[t].pc = "done" /\ frames[t].e = last.e
    /\ \E t \in Threads :
          /\ frames[t].result = "none"
          /\ ents[last.e].persist_id = frames[t].create_id
    /\ frames[last.t].create_id \in DOMAIN ledger.store
    /\ frames[last.t].create_id # ents[last.e].persist_id

\* the saves of the latest registration that stored a Work or a Manifestation
CreationSaves ==
    {i \in SaveCalls :
        Get(calls[i].payload, "@type") \in {"AbstractWork", "CreativeWork"}}

\* C40: when register_manifestation returns normally with a work, the work
\* and the manifestation returned both have a persist_id other than None;
\* when the save of the work or of the manifestation returned None, that save
\* is the last plugin call, the call raises ModelDataError and hands back no
\* entity.
C40_ReturnedEntitiesArePersisted ==
    Registered
    => /\ (last.result = "none" /\ last.ret.work # NoEnt)
          => /\ ents[last.ret.work].persist_id # None
             /\ ents[last.ret.manifestation].persist_id # None
             /\ ents[last.ret.manifestation].model.data["manifestationOfWork"]
                   = ents[last.ret.work].persist_id
       /\ \A i \in CreationSaves :
             calls[i].ret = None
             => /\ last.result = "ModelDataError"
                /\ i = Len(calls)
                /\ last.ret.work = NoEnt
                /\ last.ret.manifestation = NoEnt

\* the save of the work of a registration returned None, and the
\* registration raised when it built the manifestation
C40_Witness ==
    /\ Registered
    /\ last.result = "ModelDataError"
    /\ Len(calls) = 1
    /\ calls[1].op = "save"
    /\ calls[1].ret = None
    /\ Get(calls[1].payload, "@type") = "AbstractWork"
    /\ Len(last.built) = 1
    /\ last.built[1].persist_id = None

====
